---- MODULE Spec2Model ----
(***************************************************************************)
(* A model of the order matching engine (xsh4n4/LowLatencyMachineEngine).  *)
(*                                                                         *)
(* Part 1, OrderBook: one book of symbol BookSymbol with its two price     *)
(* ladders, the id index, the trade history and the counters, driven by    *)
(* add_order, cancel_order and modify_order.  Order objects live on a heap *)
(* (`orders`) and are referred to by handle, as the std::shared_ptr<Order> *)
(* of the source refer to one Order object from the ladder and the index.  *)
(*                                                                         *)
(* Prices are doubles in the source.  The model draws them from the even   *)
(* integers, so that the midpoint (a + b) / 2.0 of two prices is again an  *)
(* integer and \div computes it exactly.                                   *)
(***************************************************************************)
EXTENDS Integers, Sequences, FiniteSets, TLC

(***************************************************************************)
(* Bounds of the model.                                                    *)
(***************************************************************************)
\* Order objects a behaviour admits to the book (handles 1..MaxOrders).
MaxOrders == 3
\* Order ids are 1..MaxId.
MaxId == 3
\* Quantities an order or a modify_order carries: 0..MaxQty.
MaxQty == 2
\* Prices of LIMIT orders are 2, 4, .., 2 * MaxPriceTick.
MaxPriceTick == 2
\* Readings of the clock, and timestamps a submitter writes: 0..MaxTime.
MaxTime == 1
\* The ring has 2 ^ RingBits slots.
RingBits == 2
\* Items the producer of the ring offers to try_push: 1..MaxItems.
MaxItems == 6
\* The order ring of the engine has 2 ^ OrderRingBits slots.
OrderRingBits == 1
\* config_.num_matching_threads and config_.num_market_data_threads.
NumMatchingThreads == 2
NumMarketDataThreads == 1
\* Threads that call submit_order, and get_or_create_order_book.
NumClients == 1
\* The orders the order ring takes over a run of the engine.
MaxSubmits == 2
NumCallers == 3
\* The calls of add_order with one order that are told apart: deliveries
\* beyond MaxDeliveries count as MaxDeliveries.
MaxDeliveries == 2
\* The trades a book records beyond MAX_TRADES_HISTORY.
MaxEvictions == 2

(***************************************************************************)
(* Program constants.                                                      *)
(***************************************************************************)
\* quantity and filled_quantity are uint64_t and wrap.  TLC's integers have
\* 32 bits, so the model's word has 16 bits: every quantity of the model is
\* far below the modulus, as every realistic quantity is far below 2^64.
WordMod == 65536
MAX_TRADES_HISTORY == 1000

BookSymbol == "AAPL"
OtherSymbol == "MSFT"
Symbols == {"AAPL", "MSFT"}
Sides == {"BUY", "SELL"}
Types == {"MARKET", "LIMIT"}

Handles == 1..MaxOrders
Quantities == 0..MaxQty
Prices == {2 * i : i \in 1..MaxPriceTick}
Times == 0..MaxTime

NoOrder == [order_id |-> 0]

\* The Order objects a caller can pass to add_order, of the given ids, types,
\* quantities, prices and timestamps: freshly built, nothing filled, status
\* PENDING (both Order constructors).  A MARKET order names no price: its
\* price field holds 0.0, the value Order() gives it.
NewOrders(ids, types, quantities, prices, times) ==
    [order_id : ids, symbol : {BookSymbol}, side : Sides,
     type : types \cap {"LIMIT"}, quantity : quantities, filled_quantity : {0},
     price : prices, timestamp : times, status : {"PENDING"}]
    \cup
    [order_id : ids, symbol : {BookSymbol}, side : Sides,
     type : types \cap {"MARKET"}, quantity : quantities, filled_quantity : {0},
     price : {0}, timestamp : times, status : {"PENDING"}]

\* Orders for another symbol.  add_order reads nothing but the symbol of such
\* an order, so one order per id stands for them all.
ForeignOrders(ids) ==
    [order_id : ids, symbol : Symbols \ {BookSymbol}, side : {"BUY"},
     type : {"LIMIT"}, quantity : {1}, filled_quantity : {0}, price : {2},
     timestamp : {0}, status : {"PENDING"}]

VARIABLES
    orders,          \* heap: handle -> Order object, NoOrder for a free handle
    next_handle,     \* the handle the next admitted object gets
    next_id,         \* the smallest order id no admitted order has carried
    bids_,           \* price -> sequence of handles; begin() is the highest price
    asks_,           \* price -> sequence of handles; begin() is the lowest price
    orders_by_id_,   \* order id -> handle
    recent_trades_,  \* sequence of trades
    total_orders_,
    total_trades_,
    total_volume_,
    clock,           \* the reading high_resolution_clock::now() returns
    last,            \* the last call made on the book and what it returned
    match_log,       \* one entry per iteration of match_orders in that call
    rw_mutex_,       \* the shared_mutex of the book: its owners
    write_call,      \* the thread inside add_order, cancel_order or modify_order
    read_call,       \* the thread inside get_bids, get_asks or get_snapshot
    \* LockFreeRingBuffer
    buffer_,         \* slot -> item, NoItem for a slot never written
    head_,
    tail_,
    ring_call,       \* thread -> the locals of its try_push or try_pop
    next_item,       \* the item the next try_push of the producer carries
    push_log,        \* the items stored by try_push, in the order of the stores
    pop_log,         \* the items returned by try_pop, in the order of the returns
    \* OrderMatchingEngine
    running_,
    shutdown_requested_,
    tcp_running,     \* tcp_server_->running_
    mdp_running,     \* market_data_processor_->running_
    control,         \* the thread that calls start() and stop()
    submit_call,     \* thread -> the locals of its submit_order
    worker,          \* matching thread -> its position and its batch
    aux,             \* market-data or metrics thread -> its position
    orders_processed,
    total_latency_ns,
    connected_,      \* market_data_processor_->data_source_->connected_
    delivered,       \* handle -> the calls of add_order a worker made with it
    trades_executed, \* metrics_.trades_executed
    \* OrderBookManager
    order_books_,    \* symbol -> OrderBook instance
    registry_mutex,  \* the thread that holds rw_mutex_, NoThread when free
    registry_call,   \* thread -> the locals of its get_or_create_order_book
    books_made,      \* the OrderBook instances constructed so far
    other_book,      \* the members of the OrderBook of OtherSymbol
    call_symbol      \* the symbol of the last call routed through the manager

lock_vars == <<rw_mutex_, write_call, read_call>>

book_vars == <<orders, next_handle, next_id, bids_, asks_, orders_by_id_,
               recent_trades_, total_orders_, total_trades_, total_volume_, clock,
               last, match_log, lock_vars>>

ring_vars == <<buffer_, head_, tail_, ring_call, next_item, push_log, pop_log>>

engine_vars == <<running_, shutdown_requested_, tcp_running, mdp_running, control,
                 submit_call, worker, aux, orders_processed, total_latency_ns,
                 connected_, delivered, trades_executed>>

registry_vars == <<order_books_, registry_mutex, registry_call, books_made,
                   other_book, call_symbol>>

vars == <<book_vars, ring_vars, engine_vars, registry_vars>>

\* The members of the OrderBook object, as one record.
Book ==
    [bids |-> bids_, asks |-> asks_, orders_by_id |-> orders_by_id_,
     recent_trades |-> recent_trades_, total_orders |-> total_orders_,
     total_trades |-> total_trades_, total_volume |-> total_volume_]

(***************************************************************************)
(* Helpers: std::map and std::vector.                                      *)
(***************************************************************************)
EmptyMap == [k \in {} |-> 0]

MapPut(m, k, v) == [x \in DOMAIN m \cup {k} |-> IF x = k THEN v ELSE m[x]]

MapErase(m, k) == [x \in DOMAIN m \ {k} |-> m[x]]

Range(s) == {s[i] : i \in DOMAIN s}

Min(a, b) == IF a < b THEN a ELSE b

\* bids_.begin()->first under std::greater<double>.
BidsBegin(m) == CHOOSE p \in DOMAIN m : \A q \in DOMAIN m : q <= p

\* asks_.begin()->first under std::less<double>.
AsksBegin(m) == CHOOSE p \in DOMAIN m : \A q \in DOMAIN m : p <= q

(***************************************************************************)
(* Order (order.h).                                                        *)
(***************************************************************************)
is_filled(o) == o.filled_quantity >= o.quantity

remaining_quantity(o) == (o.quantity - o.filled_quantity) % WordMod

(***************************************************************************)
(* OrderBook: price levels.                                                *)
(***************************************************************************)
\* Mutant of SortedByTimestamp: the level is left as push_back left it.
SortedByTimestamp_unsorted(level, heap) == {level}

\* std::sort with the comparator a->timestamp < b->timestamp: the result is
\* some permutation of the level in which no order precedes one of a smaller
\* timestamp.  std::sort is not stable, so orders of equal timestamp may come
\* out in any order.
SortedByTimestamp(level, heap) ==
    LET n == Len(level)
        perms == {p \in [1..n -> 1..n] : \A i, j \in 1..n : i # j => p[i] # p[j]}
        sorted(s) == \A i, j \in 1..n :
                        i < j => ~(heap[s[j]].timestamp < heap[s[i]].timestamp)
    IN  {s \in {[i \in 1..n |-> level[p[i]]] : p \in perms} : sorted(s)}

\* add_to_bid_level and add_to_ask_level: ladder[price] (created empty when
\* absent), push_back, sort.  The set of ladders the call can leave.
add_to_level(ladder, price, h, heap) ==
    LET price_level == IF price \in DOMAIN ladder THEN ladder[price] ELSE <<>>
    IN  {MapPut(ladder, price, s) :
            s \in SortedByTimestamp(Append(price_level, h), heap)}

\* Mutant of remove_from_level: the level keeps the order.
remove_from_level_keeps(ladder, price, order_id, heap) == ladder

\* remove_from_bid_level and remove_from_ask_level: erase(remove_if(id == order_id)).
remove_from_level(ladder, price, order_id, heap) ==
    IF price \notin DOMAIN ladder
    THEN ladder
    ELSE [ladder EXCEPT ![price] =
            SelectSeq(@, LAMBDA x : heap[x].order_id # order_id)]

\* Mutant of cleanup_empty_levels: empty levels stay.
cleanup_empty_levels_keeps(ladder) == ladder

cleanup_empty_levels(ladder) ==
    [p \in {q \in DOMAIN ladder : ladder[q] # <<>>} |-> ladder[p]]

(***************************************************************************)
(* OrderBook: matching.  A book in the middle of a call is a record `b`    *)
(* with the members of Book, the heap and the log of the call.             *)
(***************************************************************************)
\* Mutant of record_trade: the trade is stored and counted, its volume is not
\* added.
record_trade_without_volume(b, price, quantity) ==
    [b EXCEPT
        !.recent_trades = Append(@, [trade_id |-> b.total_trades + 1,
                                     trade_price |-> price,
                                     trade_quantity |-> quantity]),
        !.total_trades = b.total_trades + 1]

\* Mutant of record_trade: the trade gets the number of the trades before it
\* as its id.
record_trade_id_from_zero(b, price, quantity) ==
    LET pushed == Append(b.recent_trades, [trade_id |-> b.total_trades,
                                           trade_price |-> price,
                                           trade_quantity |-> quantity])
    IN  [b EXCEPT
            !.recent_trades = IF Len(pushed) > MAX_TRADES_HISTORY
                              THEN Tail(pushed) ELSE pushed,
            !.total_trades = b.total_trades + 1,
            !.total_volume = b.total_volume + price * quantity]

\* Mutant of record_trade: no trade is evicted.
record_trade_keeps_all(b, price, quantity) ==
    [b EXCEPT
        !.recent_trades = Append(@, [trade_id |-> b.total_trades + 1,
                                     trade_price |-> price,
                                     trade_quantity |-> quantity]),
        !.total_trades = b.total_trades + 1,
        !.total_volume = b.total_volume + price * quantity]

record_trade(b, price, quantity) ==
    LET trade == [trade_id |-> b.total_trades + 1,
                  trade_price |-> price,
                  trade_quantity |-> quantity]
        pushed == Append(b.recent_trades, trade)
    IN  [b EXCEPT
            !.recent_trades = IF Len(pushed) > MAX_TRADES_HISTORY
                              THEN Tail(pushed) ELSE pushed,
            !.total_trades = b.total_trades + 1,
            !.total_volume = b.total_volume + price * quantity]

\* Mutant of Crosses: equal prices do not match.
Crosses_strict(best_bid, best_ask) == best_bid > best_ask

\* The test `if (best_bid < best_ask) break;` of match_orders, negated.
Crosses(best_bid, best_ask) == ~(best_bid < best_ask)

\* The guard of one iteration of the loop of match_orders.
CanMatch(b) ==
    /\ DOMAIN b.bids # {}
    /\ DOMAIN b.asks # {}
    /\ Crosses(BidsBegin(b.bids), AsksBegin(b.asks))
    /\ b.bids[BidsBegin(b.bids)] # <<>>
    /\ b.asks[AsksBegin(b.asks)] # <<>>

\* Mutant of match_quantity: one unit is matched at a time.
match_quantity_one(buy_order, sell_order) == 1

\* std::min(buy_order->remaining_quantity(), sell_order->remaining_quantity()).
match_quantity(buy_order, sell_order) ==
    Min(remaining_quantity(buy_order), remaining_quantity(sell_order))

\* Mutant of match_price: the trade is made at the price of the ask level.
match_price_resting(best_bid, best_ask) == best_ask

\* double match_price = (best_bid + best_ask) / 2.0;
match_price(best_bid, best_ask) == (best_bid + best_ask) \div 2

\* `filled_quantity += match_quantity` on a uint64_t.
fill(o, quantity) ==
    [o EXCEPT !.filled_quantity = (@ + quantity) % WordMod]

\* Mutant of remove_filled: the filled order stays in the index.
remove_filled_keeps_index(b, side, best, h) ==
    IF is_filled(b.orders[h])
    THEN [b EXCEPT
            ![side] = [@ EXCEPT ![best] = Tail(@)],
            !.total_orders = (@ - 1) % WordMod]
    ELSE b

\* Mutant of remove_filled: the filled order leaves the level and the index,
\* the counter stays.
remove_filled_uncounted(b, side, best, h) ==
    IF is_filled(b.orders[h])
    THEN [b EXCEPT
            ![side] = [@ EXCEPT ![best] = Tail(@)],
            !.orders_by_id = MapErase(@, b.orders[h].order_id)]
    ELSE b

\* "Remove filled orders" for one side: erase the front of the best level,
\* erase the id from the index, decrement the counter.
remove_filled(b, side, best, h) ==
    IF is_filled(b.orders[h])
    THEN [b EXCEPT
            ![side] = [@ EXCEPT ![best] = Tail(@)],
            !.orders_by_id = MapErase(@, b.orders[h].order_id),
            !.total_orders = (@ - 1) % WordMod]
    ELSE b

\* "Clean up empty price levels": only the two best levels are looked at.
erase_if_empty(b, side, best) ==
    IF b[side][best] = <<>> THEN [b EXCEPT ![side] = MapErase(@, best)] ELSE b

\* One iteration of the loop of match_orders, CanMatch(b) given.
match_step(b) ==
    LET best_bid == BidsBegin(b.bids)
        best_ask == AsksBegin(b.asks)
        buy == Head(b.bids[best_bid])
        sell == Head(b.asks[best_ask])
        price == match_price(best_bid, best_ask)
        quantity == match_quantity(b.orders[buy], b.orders[sell])
        b1 == record_trade(b, price, quantity)
        b2 == [b1 EXCEPT !.orders =
                 [@ EXCEPT ![buy] = fill(@, quantity), ![sell] = fill(@, quantity)]]
        b3 == remove_filled(b2, "bids", best_bid, buy)
        b4 == remove_filled(b3, "asks", best_ask, sell)
        b5 == erase_if_empty(b4, "bids", best_bid)
        b6 == erase_if_empty(b5, "asks", best_ask)
        entry == [buy |-> buy, sell |-> sell,
                  trade |-> b1.recent_trades[Len(b1.recent_trades)],
                  bids |-> b.bids, asks |-> b.asks,
                  buy_before |-> b.orders[buy], sell_before |-> b.orders[sell],
                  buy_after |-> b2.orders[buy], sell_after |-> b2.orders[sell]]
    IN  [b6 EXCEPT !.log = Append(@, entry)]

RECURSIVE match_orders(_)
match_orders(b) == IF CanMatch(b) THEN match_orders(match_step(b)) ELSE b

\* Both only call match_orders.
process_market_order(b, h) == match_orders(b)

process_limit_order(b, h) == match_orders(b)

(***************************************************************************)
(* OrderBook: the public operations, as functions of the book `b` the call *)
(* finds.  Each yields [ret, b]: what the call returns and the book it     *)
(* leaves; where std::sort leaves a choice, the set of these.              *)
(***************************************************************************)
SideOf(o) == IF o.side = "BUY" THEN "bids" ELSE "asks"

\* Mutant of add_order_rejects: the id is not looked up.
add_order_rejects_symbol_only(b, o) == o.symbol # b.symbol

\* The two rejections of add_order: another symbol, or an id the index holds.
add_order_rejects(b, o) ==
    \/ o.symbol # b.symbol
    \/ o.order_id \in DOMAIN b.orders_by_id

\* add_order(order), `h` the handle of the order object.
add_order(b, h) ==
    LET o == b.orders[h]
        side == SideOf(o)
    IN  IF add_order_rejects(b, o)
        THEN {[ret |-> FALSE, b |-> b]}
        ELSE {[ret |-> TRUE,
               b |-> match_orders(
                        IF o.type = "MARKET"
                        THEN process_market_order(b1, h)
                        ELSE process_limit_order(b1, h))] :
              b1 \in {[b EXCEPT !.orders_by_id = MapPut(@, o.order_id, h),
                                ![side] = ladder,
                                !.total_orders = @ + 1] :
                      ladder \in add_to_level(b[side], o.price, h, b.orders)}}

\* Mutant of cancel_order: an id that is not found is counted as removed.
cancel_order_counts_unknown(b, order_id) ==
    IF order_id \notin DOMAIN b.orders_by_id
    THEN [ret |-> FALSE, b |-> [b EXCEPT !.total_orders = (@ - 1) % WordMod]]
    ELSE LET h == b.orders_by_id[order_id]
             o == b.orders[h]
             side == SideOf(o)
             b1 == [b EXCEPT
                      ![side] = remove_from_level(@, o.price, order_id, b.orders)]
             b2 == [b1 EXCEPT !.orders_by_id = MapErase(@, order_id),
                              !.orders = [@ EXCEPT ![h].status = "CANCELLED"],
                              !.total_orders = (@ - 1) % WordMod]
         IN  [ret |-> TRUE,
              b |-> [b2 EXCEPT !.bids = cleanup_empty_levels(@),
                               !.asks = cleanup_empty_levels(@)]]

cancel_order(b, order_id) ==
    IF order_id \notin DOMAIN b.orders_by_id
    THEN [ret |-> FALSE, b |-> b]
    ELSE LET h == b.orders_by_id[order_id]
             o == b.orders[h]
             side == SideOf(o)
             b1 == [b EXCEPT
                      ![side] = remove_from_level(@, o.price, order_id, b.orders)]
             b2 == [b1 EXCEPT !.orders_by_id = MapErase(@, order_id),
                              !.orders = [@ EXCEPT ![h].status = "CANCELLED"],
                              !.total_orders = (@ - 1) % WordMod]
         IN  [ret |-> TRUE,
              b |-> [b2 EXCEPT !.bids = cleanup_empty_levels(@),
                               !.asks = cleanup_empty_levels(@)]]

\* Mutant of modify_order: the timestamp is not refreshed.
modify_order_keeps_timestamp(b, order_id, new_quantity, new_price, now) ==
    IF order_id \notin DOMAIN b.orders_by_id
    THEN {[ret |-> FALSE, b |-> b]}
    ELSE LET h == b.orders_by_id[order_id]
             o == b.orders[h]
             side == SideOf(o)
             b1 == [b EXCEPT
                      ![side] = remove_from_level(@, o.price, order_id, b.orders)]
             b2 == [b1 EXCEPT !.orders = [@ EXCEPT ![h].quantity = new_quantity,
                                                   ![h].price = new_price]]
         IN  {[ret |-> TRUE,
               b |-> [b4 EXCEPT !.bids = cleanup_empty_levels(@),
                                !.asks = cleanup_empty_levels(@)]] :
              b4 \in {match_orders([b2 EXCEPT ![side] = ladder]) :
                      ladder \in add_to_level(b2[side], new_price, h, b2.orders)}}

\* modify_order(order_id, new_quantity, new_price); `now` is the reading of
\* the clock.
modify_order(b, order_id, new_quantity, new_price, now) ==
    IF order_id \notin DOMAIN b.orders_by_id
    THEN {[ret |-> FALSE, b |-> b]}
    ELSE LET h == b.orders_by_id[order_id]
             o == b.orders[h]
             side == SideOf(o)
             b1 == [b EXCEPT
                      ![side] = remove_from_level(@, o.price, order_id, b.orders)]
             b2 == [b1 EXCEPT !.orders = [@ EXCEPT ![h].quantity = new_quantity,
                                                   ![h].price = new_price,
                                                   ![h].timestamp = now]]
         IN  {[ret |-> TRUE,
               b |-> [b4 EXCEPT !.bids = cleanup_empty_levels(@),
                                !.asks = cleanup_empty_levels(@)]] :
              b4 \in {match_orders([b2 EXCEPT ![side] = ladder]) :
                      ladder \in add_to_level(b2[side], new_price, h, b2.orders)}}

(***************************************************************************)
(* The calls.  The book serialises its callers (rw_mutex_), so a behaviour *)
(* is a sequence of calls; `last` holds the call that has returned until   *)
(* its caller has taken the result (Return).                               *)
(***************************************************************************)
\* The book a call finds, over the heap `heap`.
Entering(heap) ==
    [symbol |-> BookSymbol,
     bids |-> bids_, asks |-> asks_, orders_by_id |-> orders_by_id_,
     recent_trades |-> recent_trades_, total_orders |-> total_orders_,
     total_trades |-> total_trades_, total_volume |-> total_volume_,
     orders |-> heap, log |-> <<>>]

\* The book a call leaves.
Leaving(b) ==
    /\ bids_' = b.bids
    /\ asks_' = b.asks
    /\ orders_by_id_' = b.orders_by_id
    /\ recent_trades_' = b.recent_trades
    /\ total_orders_' = b.total_orders
    /\ total_trades_' = b.total_trades
    /\ total_volume_' = b.total_volume
    /\ orders' = b.orders
    /\ match_log' = b.log

Idle == last.op = "none"

\* Order ids are compared for equality only.  The callers' ids are therefore
\* named in the order of their first admission: a call carries an id some
\* admitted order has carried, or next_id, which stands for every other id.
KnownIds == 1..Min(next_id, MaxId)

\* add_order with an order of the set `submitted`.
AddOrderOf(submitted) ==
    /\ Idle
    /\ next_handle <= MaxOrders
    /\ \E o \in submitted :
        \E r \in add_order(Entering([orders EXCEPT ![next_handle] = o]), next_handle) :
            /\ Leaving(r.b)
            /\ last' = [op |-> "add_order", ret |-> r.ret, h |-> next_handle,
                        order_id |-> o.order_id]
            /\ next_handle' = IF r.ret THEN next_handle + 1 ELSE next_handle
            /\ next_id' = IF r.ret /\ o.order_id = next_id
                          THEN next_id + 1 ELSE next_id
    /\ UNCHANGED <<clock, ring_vars, engine_vars, registry_vars>>
    /\ UNCHANGED lock_vars

\* MARKET and LIMIT orders of any quantity, all stamped 0, and orders for
\* another symbol.
AddOrder ==
    AddOrderOf(NewOrders(KnownIds, Types, Quantities, Prices, {0})
               \cup ForeignOrders(KnownIds))

\* LIMIT orders of quantity 1 with any timestamp.
AddStampedOrder ==
    AddOrderOf(NewOrders(KnownIds, {"LIMIT"}, {1}, Prices, Times))

HandleOf(order_id) ==
    IF order_id \in DOMAIN orders_by_id_ THEN orders_by_id_[order_id] ELSE 0

CancelOrder ==
    /\ Idle
    /\ \E order_id \in KnownIds :
        LET r == cancel_order(Entering(orders), order_id)
        IN  /\ Leaving(r.b)
            /\ last' = [op |-> "cancel_order", ret |-> r.ret,
                        h |-> HandleOf(order_id), order_id |-> order_id]
    /\ UNCHANGED <<next_handle, next_id, clock, ring_vars, engine_vars, registry_vars>>
    /\ UNCHANGED lock_vars

ModifyOrderOf(quantities) ==
    /\ Idle
    /\ \E order_id \in KnownIds, new_quantity \in quantities, new_price \in Prices :
        \E r \in modify_order(Entering(orders), order_id, new_quantity, new_price,
                              clock) :
            /\ Leaving(r.b)
            /\ last' = [op |-> "modify_order", ret |-> r.ret,
                        h |-> HandleOf(order_id), order_id |-> order_id]
    /\ UNCHANGED <<next_handle, next_id, clock, ring_vars, engine_vars, registry_vars>>
    /\ UNCHANGED lock_vars

ModifyOrder == ModifyOrderOf(Quantities)

\* An Order object that is in neither ladder nor in the index is reachable
\* from its submitter only: the book never refers to it again.
InBook(h) ==
    \/ \E id \in DOMAIN orders_by_id_ : orders_by_id_[id] = h
    \/ \E p \in DOMAIN bids_ : h \in Range(bids_[p])
    \/ \E p \in DOMAIN asks_ : h \in Range(asks_[p])

NoCall == [op |-> "none", ret |-> FALSE, h |-> 0, order_id |-> 0]

\* The caller takes the result of its call, and the orders that have left
\* the book with it.
Return ==
    /\ ~Idle
    /\ last' = NoCall
    /\ match_log' = <<>>
    /\ orders' = [h \in Handles |-> IF InBook(h) THEN orders[h] ELSE NoOrder]
    /\ UNCHANGED <<next_handle, next_id, bids_, asks_, orders_by_id_,
                   recent_trades_, total_orders_, total_trades_, total_volume_,
                   clock, ring_vars, engine_vars, registry_vars>>
    /\ UNCHANGED lock_vars

\* Time passes between two calls: high_resolution_clock::now() reads later.
Tick ==
    /\ Idle
    /\ clock < MaxTime
    /\ clock' = clock + 1
    /\ UNCHANGED <<orders, next_handle, next_id, bids_, asks_, orders_by_id_,
                   recent_trades_, total_orders_, total_trades_, total_volume_,
                   last, match_log, ring_vars, engine_vars, registry_vars>>
    /\ UNCHANGED lock_vars

(***************************************************************************)
(* LockFreeRingBuffer<T, Size> (ring_buffer.h): the object and its threads. *)
(***************************************************************************)
\* Size, a power of 2 (static_assert): the number of slots of buffer_.
Size == Cardinality(DOMAIN buffer_)

\* x & MASK with MASK = Size - 1: the low bits of x, as Size is a power of 2.
Masked(x) == x % Size

Slots == DOMAIN buffer_

\* A default-constructed T: what a slot holds before its first write.
NoItem == 0

\* The threads of the program, each a pair of its role and its number.  The
\* ring on its own has one producer and one consumer; the engine's order ring
\* is pushed by the threads that call submit_order and popped by the matching
\* threads.
Producer == <<"producer", 1>>
Consumer == <<"consumer", 1>>
Submitters == {<<"client", i>> : i \in 1..NumClients}
Workers == {<<"matching", i>> : i \in 1..NumMatchingThreads}
RingThreads == {Producer, Consumer} \cup Submitters \cup Workers

\* A thread that has called neither try_push nor try_pop.  The locals of a
\* thread: the call `op` it is in or has returned from, its position `pc`
\* ("idle" when it has returned), current_tail or current_head, next_tail,
\* the item, and what the call returned.
NoRingCall == [op |-> "none", pc |-> "idle", current |-> 0, next |-> 0,
               item |-> NoItem, ret |-> FALSE]

\* LockFreeRingBuffer() = default: head_{0}, tail_{0}, buffer_ of default T.
RingInit(bits) ==
    /\ buffer_ = [i \in 0..(2 ^ bits - 1) |-> NoItem]
    /\ head_ = 0
    /\ tail_ = 0
    /\ ring_call = [t \in RingThreads |-> NoRingCall]
    /\ next_item = 1
    /\ push_log = <<>>
    /\ pop_log = <<>>

\* The market-data threads and the metrics thread of the engine.
AuxThreads == {<<"market_data", i>> : i \in 1..NumMarketDataThreads}
              \cup {<<"metrics", 1>>}

\* The thread that owns the engine: it calls start() and stop().  `op` is the
\* call it is in or has returned from, `ret` what start() returned, `at_once`
\* whether the call returned at its first test of running_.
NoControl == [op |-> "none", pc |-> "idle", ret |-> FALSE, at_once |-> FALSE]

\* A thread that has not called submit_order.  `h` is the order of the call,
\* `ret` what the call returned, `full` whether it returned false because
\* try_push did.  `since_full` follows the thread from a call the full ring
\* refused: "refused" when that call has returned, "drained" once a try_pop
\* has returned an order after it, "retry" in the call that comes next.
NoSubmit == [op |-> "none", pc |-> "idle", h |-> NoItem, ret |-> FALSE,
             full |-> FALSE, since_full |-> "none"]

\* A matching thread that was not spawned.
NoWorker == [pc |-> "none", batch |-> <<>>]

\* OrderMatchingEngine::OrderMatchingEngine: running_(false),
\* shutdown_requested_(false), the components constructed and not started,
\* no thread, metrics_ zero (PerformanceMetrics: trades_executed{0}, which
\* no function of the engine writes afterwards).
EngineInit ==
    /\ running_ = FALSE
    /\ shutdown_requested_ = FALSE
    /\ tcp_running = FALSE
    /\ mdp_running = FALSE
    /\ control = NoControl
    /\ submit_call = [t \in Submitters |-> NoSubmit]
    /\ worker = [t \in Workers |-> NoWorker]
    /\ aux = [t \in AuxThreads |-> "none"]
    /\ orders_processed = 0
    /\ total_latency_ns = 0
    /\ connected_ = FALSE
    /\ delivered = [h \in Handles |-> 0]
    /\ trades_executed = 0

NoThread == <<"none", 0>>
RegistryThreads == {<<"caller", i>> : i \in 1..NumCallers}
NoBook == 0

\* A thread that has not called get_or_create_order_book.  `symbol` is the
\* argument, `found` what find(symbol) gave, `ret` the OrderBook returned.
NoRegistryCall == [op |-> "none", pc |-> "idle", symbol |-> BookSymbol,
                   found |-> NoBook, ret |-> NoBook]

\* OrderBook::OrderBook(symbol): the ladders, the index and the history
\* empty, the counters 0.
NewBook ==
    [bids |-> EmptyMap, asks |-> EmptyMap, orders_by_id |-> EmptyMap,
     recent_trades |-> <<>>, total_orders |-> 0, total_trades |-> 0,
     total_volume |-> 0]

\* No call has been routed.
NoSymbol == ""

\* OrderBookManager() = default: order_books_ empty, rw_mutex_ free.
RegistryInit ==
    /\ order_books_ = [s \in Symbols |-> NoBook]
    /\ registry_mutex = NoThread
    /\ registry_call = [t \in RegistryThreads |-> NoRegistryCall]
    /\ books_made = 0
    /\ other_book = NewBook
    /\ call_symbol = NoSymbol

\* OrderBook::OrderBook.
\* std::shared_mutex: the thread that owns it exclusively (a flag: one thread
\* writes), and the number of shared ownerships.
Unlocked == [unique |-> FALSE, shared |-> 0]

NoWrite == [op |-> "none", pc |-> "idle", order_id |-> 0, h |-> 0,
            new_quantity |-> 0, new_price |-> 0]

NoRead == [op |-> "none", pc |-> "idle", levels |-> 0, bids |-> <<>>,
           asks |-> <<>>]

BookInit ==
    /\ orders = [h \in Handles |-> NoOrder]
    /\ next_handle = 1
    /\ next_id = 1
    /\ bids_ = EmptyMap
    /\ asks_ = EmptyMap
    /\ orders_by_id_ = EmptyMap
    /\ recent_trades_ = <<>>
    /\ total_orders_ = 0
    /\ total_trades_ = 0
    /\ total_volume_ = 0
    /\ clock = 0
    /\ last = NoCall
    /\ match_log = <<>>
    /\ rw_mutex_ = Unlocked
    /\ write_call = NoWrite
    /\ read_call = NoRead

\* The program after construction: a book, a ring of 2 ^ RingBits slots, an
\* engine and a manager.
Init ==
    /\ BookInit
    /\ RingInit(RingBits)
    /\ EngineInit
    /\ RegistryInit

\* The book under MARKET and LIMIT orders of one timestamp.
Next == AddOrder \/ CancelOrder \/ ModifyOrder \/ Return

Spec == Init /\ [][Next]_vars

\* The book under orders of several timestamps, while the clock advances.
NextTime == AddStampedOrder \/ CancelOrder \/ ModifyOrder \/ Return \/ Tick

SpecTime == Init /\ [][NextTime]_vars

(***************************************************************************)
(* Properties of the order book.                                           *)
(***************************************************************************)
HighestPrice(ladder) == CHOOSE p \in DOMAIN ladder : \A q \in DOMAIN ladder : p >= q

LowestPrice(ladder) == CHOOSE p \in DOMAIN ladder : \A q \in DOMAIN ladder : p =< q

\* remaining = quantity - filled_quantity, as the data model defines it.
Remaining(o) == o.quantity - o.filled_quantity

\* The places of the ladders, and those that hold the order object h.
Places ==
    {<<"bids", p, i>> : p \in DOMAIN bids_, i \in 1..MaxOrders} \cup
    {<<"asks", p, i>> : p \in DOMAIN asks_, i \in 1..MaxOrders}

PlacesOf(h) ==
    {pl \in Places :
        LET level == IF pl[1] = "bids" THEN bids_[pl[2]] ELSE asks_[pl[2]]
        IN  pl[3] \in DOMAIN level /\ level[pl[3]] = h}

\* Everything of the book but the order object `h`.
UnchangedBut(h) ==
    /\ Book' = Book
    /\ \A x \in Handles \ {h} : orders'[x] = orders[x]

\* A step that is a call of `op`.
Calls(op) == Idle /\ last'.op = op

\* C1: every trade recorded by match_orders pairs the first order of the
\* highest-priced bid level with the first order of the lowest-priced ask
\* level, its quantity is min(buy.remaining, sell.remaining) at match time,
\* and the filled_quantity of both orders increases by exactly that quantity.
C1_PriceTimePriority ==
    \A i \in DOMAIN match_log :
        LET e == match_log[i]
            quantity == e.trade.trade_quantity
        IN  /\ e.buy = Head(e.bids[HighestPrice(e.bids)])
            /\ e.sell = Head(e.asks[LowestPrice(e.asks)])
            /\ quantity = Min(Remaining(e.buy_before), Remaining(e.sell_before))
            /\ e.buy_after.filled_quantity = e.buy_before.filled_quantity + quantity
            /\ e.sell_after.filled_quantity = e.sell_before.filled_quantity + quantity

\* C2: no crossed book: whenever a call has returned, one side of the book
\* is empty or the best bid is below the best ask.
C2_NoCrossedBook ==
    \/ DOMAIN bids_ = {}
    \/ DOMAIN asks_ = {}
    \/ HighestPrice(bids_) < LowestPrice(asks_)

\* An add_order has matched and has left orders on both sides.
C2_Witness ==
    /\ last.op = "add_order" /\ last.ret
    /\ match_log # <<>>
    /\ DOMAIN bids_ # {} /\ DOMAIN asks_ # {}

\* C3: index consistency: an order is in orders_by_id exactly if it is in the
\* ladders, and then it is there once, on the side of its side field, in the
\* level of its price.
C3_IndexConsistent ==
    /\ \A id \in DOMAIN orders_by_id_ :
        LET h == orders_by_id_[id]
        IN  /\ orders[h] # NoOrder
            /\ orders[h].order_id = id
            /\ Cardinality(PlacesOf(h)) = 1
            /\ \A pl \in PlacesOf(h) :
                pl[1] = SideOf(orders[h]) /\ pl[2] = orders[h].price
    /\ \A h \in Handles :
        PlacesOf(h) # {} =>
            /\ orders[h] # NoOrder
            /\ orders[h].order_id \in DOMAIN orders_by_id_
            /\ orders_by_id_[orders[h].order_id] = h

\* A call has filled and removed an order and the book still holds orders.
C3_Witness ==
    /\ last.ret
    /\ \E i \in DOMAIN match_log : is_filled(match_log[i].buy_after)
    /\ DOMAIN orders_by_id_ # {}

\* C4: quantity accounting: every order the book has admitted keeps
\* 0 <= filled_quantity <= quantity, and its filled_quantity never decreases.
C4_QuantityAccounting ==
    [][\A h \in Handles :
          orders'[h] # NoOrder =>
              /\ 0 <= orders'[h].filled_quantity
              /\ orders'[h].filled_quantity <= orders'[h].quantity
              /\ orders[h] # NoOrder =>
                    orders'[h].filled_quantity >= orders[h].filled_quantity]_vars

\* C5: add_order returns false and leaves the book unchanged when the order
\* is for another symbol or carries an id the book holds.
C5_AddOrderRejects ==
    [][(/\ Calls("add_order")
        /\ \/ orders'[last'.h].symbol # BookSymbol
           \/ last'.order_id \in DOMAIN orders_by_id_)
       => (~last'.ret /\ UnchangedBut(last'.h))]_vars

\* add_order has returned false for an order of the book's symbol whose id
\* the book holds.
C5_Witness ==
    /\ last.op = "add_order" /\ ~last.ret
    /\ orders[last.h].symbol = BookSymbol
    /\ last.order_id \in DOMAIN orders_by_id_

IllFormed(o) == o.quantity <= 0 \/ (o.type = "LIMIT" /\ o.price <= 0)

\* C6: add_order rejects an ill-formed order (quantity not positive, or LIMIT
\* with a price not positive): it returns false, the order does not enter the
\* book, no trade is recorded, no counter changes.
C6_AddOrderRejectsIllFormed ==
    [][(Calls("add_order") /\ IllFormed(orders'[last'.h]))
       => (~last'.ret /\ UnchangedBut(last'.h))]_vars

Opposite(o) == IF o.side = "BUY" THEN asks_ ELSE bids_

\* C7: a MARKET order passed to add_order is matched against the opposite
\* side until it is filled or the opposite side is empty, whatever its price
\* field holds.
C7_MarketOrderMatches ==
    (last.op = "add_order" /\ last.ret /\ orders[last.h].type = "MARKET")
    => \/ orders[last.h].filled_quantity = orders[last.h].quantity
       \/ DOMAIN Opposite(orders[last.h]) = {}

\* C8: a MARKET order is never rested: when add_order returns, the order is in
\* no level and not in orders_by_id, and an unfilled residual has status
\* CANCELLED; against an empty opposite side no trade is recorded.
C8_MarketOrderNotRested ==
    [][(Calls("add_order") /\ last'.ret /\ orders'[last'.h].type = "MARKET")
       => /\ ~InBook(last.h)'
          /\ Remaining(orders'[last'.h]) > 0 =>
                orders'[last'.h].status = "CANCELLED"
          /\ DOMAIN Opposite(orders'[last'.h]) = {} =>
                /\ recent_trades_' = recent_trades_
                /\ total_trades_' = total_trades_]_vars

\* C9: cancel_order(id) on a resting order returns true, removes the order
\* from its level and from orders_by_id and sets its status to CANCELLED;
\* applied a second time it returns false and leaves the book as the first
\* call left it.
C9_CancelTwice ==
    [][(Calls("cancel_order") /\ last'.order_id \in DOMAIN orders_by_id_)
       => /\ last'.ret
          /\ last'.order_id \notin DOMAIN orders_by_id_'
          /\ ~InBook(last.h)'
          /\ orders'[last'.h].status = "CANCELLED"
          /\ LET first == Entering(orders)'
                 second == cancel_order(first, last'.order_id)
             IN  ~second.ret /\ second.b = first]_vars

\* cancel_order has removed one of several resting orders.
C9_Witness ==
    /\ last.op = "cancel_order" /\ last.ret
    /\ DOMAIN orders_by_id_ # {}

\* C10: modify_order loses time priority: when modify_order has returned true
\* and the order still rests, the order is the last of its level.
C10_ModifyLosesPriority ==
    (last.op = "modify_order" /\ last.ret /\ InBook(last.h))
    => \A pl \in PlacesOf(last.h) :
          LET level == IF pl[1] = "bids" THEN bids_[pl[2]] ELSE asks_[pl[2]]
          IN  level[Len(level)] = last.h

\* What C11 compares of a book: ladders with the order of their levels, the
\* index, the order count and the trades.
BookOf(b) ==
    [bids |-> b.bids, asks |-> b.asks, orders_by_id |-> b.orders_by_id,
     total_orders |-> b.total_orders, recent_trades |-> b.recent_trades,
     total_trades |-> b.total_trades, total_volume |-> b.total_volume]

\* The order with id `order_id` of book `b`, moved to `new_price`, does not
\* cross the market: the opposite side is empty or its best price is beyond.
DoesNotCross(b, order_id, new_price) ==
    LET o == b.orders[b.orders_by_id[order_id]]
        rest == cancel_order(b, order_id).b
    IN  IF o.side = "BUY"
        THEN DOMAIN rest.asks = {} \/ new_price < LowestPrice(rest.asks)
        ELSE DOMAIN rest.bids = {} \/ HighestPrice(rest.bids) < new_price

\* cancel_order(order_id), then add_order of the same order with the new
\* quantity, the new price and the timestamp `now`: the books this can leave.
CancelThenAdd(b, order_id, new_quantity, new_price, now) ==
    LET h == b.orders_by_id[order_id]
        cancelled == cancel_order(b, order_id).b
        again == [cancelled EXCEPT
                    !.orders = [@ EXCEPT ![h].quantity = new_quantity,
                                         ![h].price = new_price,
                                         ![h].timestamp = now]]
    IN  {r.b : r \in add_order(again, h)}

\* C11: a modify_order(id, q, p) that does not cross the market leaves the
\* book (ladders, level order, orders_by_id, order count, trades) as
\* cancel_order(id) followed by add_order of the same order with quantity q,
\* price p and a refreshed timestamp leaves it: the book the call leaves is
\* one the two calls can leave, and the two can leave the same books.
C11_ModifyIsCancelThenAdd ==
    [][(Calls("modify_order") /\ last'.order_id \in DOMAIN orders_by_id_)
       => LET b == Entering(orders)
              id == last'.order_id
              q == orders'[last'.h].quantity
              p == orders'[last'.h].price
              both == {BookOf(x) : x \in CancelThenAdd(b, id, q, p, clock)}
          IN  DoesNotCross(b, id, p)
              => /\ BookOf(Book') \in both
                 /\ {BookOf(r.b) : r \in modify_order(b, id, q, p, clock)} = both]_vars

\* modify_order has moved an order to a level where another order rests, at
\* a later reading of the clock, and nothing has matched.
C11_Witness ==
    /\ last.op = "modify_order" /\ last.ret
    /\ match_log = <<>>
    /\ InBook(last.h)
    /\ clock > 0
    /\ \E pl \in PlacesOf(last.h) :
          Len(IF pl[1] = "bids" THEN bids_[pl[2]] ELSE asks_[pl[2]]) > 1

\* C12: order status follows fills: after a match has increased an order's
\* filled_quantity, its status is PARTIALLY_FILLED when 0 < filled_quantity <
\* quantity and FILLED when filled_quantity = quantity.
StatusFollowsFill(o) ==
    /\ (0 < o.filled_quantity /\ o.filled_quantity < o.quantity)
          => o.status = "PARTIALLY_FILLED"
    /\ o.filled_quantity = o.quantity => o.status = "FILLED"
    /\ o.status = "FILLED" <=> Remaining(o) = 0

C12_StatusFollowsFills ==
    \A i \in DOMAIN match_log :
        LET e == match_log[i]
        IN  /\ e.buy_after.filled_quantity > e.buy_before.filled_quantity
                => StatusFollowsFill(e.buy_after)
            /\ e.sell_after.filled_quantity > e.sell_before.filled_quantity
                => StatusFollowsFill(e.sell_after)
(***************************************************************************)
(* LockFreeRingBuffer: try_push and try_pop, one step per access to head_, *)
(* tail_ or a slot.  The steps constrain buffer_, head_, tail_, ring_call, *)
(* push_log and pop_log.                                                   *)
(***************************************************************************)
\* Mutant of push_full: the ring is never found full.
push_full_never(next_tail, head) == FALSE

\* `next_tail == head_.load(acquire)` of try_push.
push_full(next_tail, head) == next_tail = head

\* Mutant of pop_empty: the ring is never found empty.
pop_empty_never(current_head, tail) == FALSE

\* `current_head == tail_.load(acquire)` of try_pop.
pop_empty(current_head, tail) == current_head = tail

InRingCall(t, pc) == ring_call[t].pc = pc

\* The locals of a call that returns `ret`: the indices it loaded are gone,
\* the item (the out parameter of try_pop) and the result stay with the caller.
Returned(call, ret) ==
    [call EXCEPT !.pc = "idle", !.current = 0, !.next = 0, !.ret = ret]

\* try_push(item) is called: current_tail = tail_.load(relaxed), next_tail.
try_push_load_tail(t, item) ==
    /\ InRingCall(t, "idle")
    /\ ring_call' = [ring_call EXCEPT ![t] =
            [op |-> "try_push", pc |-> "push_check", current |-> tail_,
             next |-> Masked(tail_ + 1), item |-> item, ret |-> FALSE]]
    /\ UNCHANGED <<buffer_, head_, tail_>>

\* if (next_tail == head_.load(acquire)) return false;
try_push_load_head(t) ==
    /\ InRingCall(t, "push_check")
    /\ ring_call' = [ring_call EXCEPT ![t] =
            IF push_full(ring_call[t].next, head_) THEN Returned(@, FALSE)
                                                   ELSE [@ EXCEPT !.pc = "push_write"]]
    /\ UNCHANGED <<buffer_, head_, tail_>>

\* buffer_[current_tail] = item;
try_push_write(t) ==
    /\ InRingCall(t, "push_write")
    /\ buffer_' = [buffer_ EXCEPT ![ring_call[t].current] = ring_call[t].item]
    /\ ring_call' = [ring_call EXCEPT ![t].pc = "push_store"]
    /\ UNCHANGED <<head_, tail_>>

\* tail_.store(next_tail, release); return true;
try_push_store_tail(t) ==
    /\ InRingCall(t, "push_store")
    /\ tail_' = ring_call[t].next
    /\ ring_call' = [ring_call EXCEPT ![t] = Returned(@, TRUE)]
    /\ UNCHANGED <<buffer_, head_>>

\* try_pop(item) is called: current_head = head_.load(relaxed).
try_pop_load_head(t) ==
    /\ InRingCall(t, "idle")
    /\ ring_call' = [ring_call EXCEPT ![t] =
            [op |-> "try_pop", pc |-> "pop_check", current |-> head_,
             next |-> Masked(head_ + 1), item |-> NoItem, ret |-> FALSE]]
    /\ UNCHANGED <<buffer_, head_, tail_>>

\* if (current_head == tail_.load(acquire)) return false;
try_pop_load_tail(t) ==
    /\ InRingCall(t, "pop_check")
    /\ ring_call' = [ring_call EXCEPT ![t] =
            IF pop_empty(ring_call[t].current, tail_) THEN Returned(@, FALSE)
                                                      ELSE [@ EXCEPT !.pc = "pop_read"]]
    /\ UNCHANGED <<buffer_, head_, tail_>>

\* item = buffer_[current_head];
try_pop_read(t) ==
    /\ InRingCall(t, "pop_read")
    /\ ring_call' = [ring_call EXCEPT ![t].item = buffer_[ring_call[t].current],
                                      ![t].pc = "pop_store"]
    /\ UNCHANGED <<buffer_, head_, tail_>>

\* head_.store((current_head + 1) & MASK, release); return true;
try_pop_store_head(t) ==
    /\ InRingCall(t, "pop_store")
    /\ head_' = ring_call[t].next
    /\ ring_call' = [ring_call EXCEPT ![t] = Returned(@, TRUE)]
    /\ UNCHANGED <<buffer_, tail_>>

empty == head_ = tail_

full == Masked(tail_ + 1) = head_

size == IF tail_ >= head_ THEN tail_ - head_ ELSE Size - head_ + tail_

(***************************************************************************)
(* The ring between one pushing and one popping thread.  The producer      *)
(* offers the items 1, 2, ..: every call of try_push carries a new one.    *)
(***************************************************************************)
\* The producer pushes the items 1, 2, ... and the consumer pops; push_log and
\* pop_log record what the calls that returned true carried.
Push ==
    /\ next_item <= MaxItems
    /\ try_push_load_tail(Producer, next_item)
    /\ next_item' = next_item + 1
    /\ UNCHANGED <<push_log, pop_log, book_vars, engine_vars, registry_vars>>

PushLoadHead ==
    /\ try_push_load_head(Producer)
    /\ UNCHANGED <<next_item, push_log, pop_log>>
    /\ UNCHANGED <<book_vars, engine_vars, registry_vars>>

PushWrite ==
    /\ try_push_write(Producer)
    /\ UNCHANGED <<next_item, push_log, pop_log>>
    /\ UNCHANGED <<book_vars, engine_vars, registry_vars>>

PushStoreTail ==
    /\ try_push_store_tail(Producer)
    /\ push_log' = Append(push_log, ring_call[Producer].item)
    /\ UNCHANGED <<next_item, pop_log>>
    /\ UNCHANGED <<book_vars, engine_vars, registry_vars>>

Pop ==
    /\ try_pop_load_head(Consumer)
    /\ UNCHANGED <<next_item, push_log, pop_log>>
    /\ UNCHANGED <<book_vars, engine_vars, registry_vars>>

PopLoadTail ==
    /\ try_pop_load_tail(Consumer)
    /\ UNCHANGED <<next_item, push_log, pop_log>>
    /\ UNCHANGED <<book_vars, engine_vars, registry_vars>>

PopRead ==
    /\ try_pop_read(Consumer)
    /\ UNCHANGED <<next_item, push_log, pop_log>>
    /\ UNCHANGED <<book_vars, engine_vars, registry_vars>>

PopStoreHead ==
    /\ try_pop_store_head(Consumer)
    /\ pop_log' = Append(pop_log, ring_call[Consumer].item)
    /\ UNCHANGED <<next_item, push_log>>
    /\ UNCHANGED <<book_vars, engine_vars, registry_vars>>

NextRing ==
    \/ Push \/ PushLoadHead \/ PushWrite \/ PushStoreTail
    \/ Pop \/ PopLoadTail \/ PopRead \/ PopStoreHead

SpecRing == Init /\ [][NextRing]_vars

(***************************************************************************)
(* Properties of the ring.                                                 *)
(***************************************************************************)
\* The items stored by try_push and not yet returned by try_pop.
InRing == SubSeq(push_log, Len(pop_log) + 1, Len(push_log))

IsPrefix(s, t) == Len(s) <= Len(t) /\ SubSeq(t, 1, Len(s)) = s

\* Two threads are about to access the same slot, one of them writing.
SlotRace ==
    \E t, u \in RingThreads :
        /\ t # u
        /\ InRingCall(t, "push_write")
        /\ InRingCall(u, "pop_read") \/ InRingCall(u, "push_write")
        /\ ring_call[t].current = ring_call[u].current

\* C13: with one pushing and one popping thread, under every interleaving of
\* the steps of try_push and try_pop: the items try_pop has returned are the
\* first of the items try_push has stored, in push order (none twice, none
\* skipped); the others are in the slots from head_ on, in push order (none
\* lost); no two threads access a slot at once with one writing, and try_pop
\* never reads a slot that was not written.
C13_RingFifo ==
    /\ IsPrefix(pop_log, push_log)
    /\ Len(InRing) < Size
    /\ Masked(head_ + Len(InRing)) = tail_
    /\ \A k \in 1..Len(InRing) : buffer_[Masked(head_ + k - 1)] = InRing[k]
    /\ ~SlotRace
    /\ \A t \in RingThreads :
        InRingCall(t, "pop_read") => buffer_[ring_call[t].current] # NoItem

\* The ring has wrapped around, holds several items, and try_pop has just
\* returned one while a try_push is about to write.
C13_Witness ==
    /\ Len(push_log) > Size
    /\ Len(InRing) >= 2
    /\ ring_call[Consumer].op = "try_pop" /\ ring_call[Consumer].ret
    /\ InRingCall(Consumer, "idle")
    /\ InRingCall(Producer, "push_write")
\* try_push decides in this step whether the ring is full.
PushDecides(t) == InRingCall(t, "push_check") /\ ~InRingCall(t, "push_check")'

\* A step of a try_push that returns false: its first or its last.
PushFails(t) ==
    \/ InRingCall(t, "idle") /\ InRingCall(t, "push_check")'
    \/ PushDecides(t) /\ InRingCall(t, "idle")'

\* C14: capacity boundary.  The ring never holds more than Size - 1 items;
\* with no try_pop under way, try_push returns false exactly when the ring
\* holds Size - 1 items (so Size - 1 consecutive calls succeed on an empty
\* ring, the next fails, and after one try_pop a call succeeds again), and a
\* call that returns false leaves head_, tail_ and the slots unchanged;
\* full() is true exactly when (tail + 1) mod Size = head, which between
\* calls is exactly when the ring holds Size - 1 items.
C14_CapacityBoundary ==
    [][/\ Len(InRing) <= Size - 1
       /\ full <=> (tail_ + 1) % Size = head_
       /\ (\A t \in RingThreads : InRingCall(t, "idle"))
            => /\ full <=> Len(InRing) = Size - 1
               /\ empty <=> Len(InRing) = 0
               /\ size = Len(InRing)
       /\ (PushDecides(Producer) /\ InRingCall(Consumer, "idle"))
            => (InRingCall(Producer, "idle")' <=> Len(InRing) = Size - 1)
       /\ PushFails(Producer) => UNCHANGED <<head_, tail_, buffer_, push_log>>]_vars

\* Size - 1 items were stored, the next try_push returned false, try_pop has
\* returned one item, and the try_push after that has returned true.
C14_Witness ==
    /\ \A t \in RingThreads : InRingCall(t, "idle")
    /\ push_log = [i \in 1..Size |-> IF i < Size THEN i ELSE Size + 1]
    /\ Len(pop_log) = 1
    /\ ring_call[Producer].ret /\ ring_call[Producer].item = Size + 1

(***************************************************************************)
(* OrderMatchingEngine (performance_monitor.cpp): start, stop, submit_order *)
(* and the threads start() spawns.  Every step is one access of an atomic   *)
(* or of the order ring, or one call under a lock.                          *)
(***************************************************************************)
\* process_order_batch collects at most this many orders.
BatchLimit == 100

\* What the two components start() starts can do: both start, the TCP server
\* fails, or the market data processor fails.
StartOutcomes == {"started", "tcp_failed", "mdp_failed"}

\* SimulatedMarketDataSource::start_streaming:
\* if (!connected_.load() || streaming_.load()) return false;
start_streaming(connected, streaming) == ~(~connected \/ streaming)

\* MarketDataProcessor::start: if (running_.load()) return true; then
\* if (data_source_ && !data_source_->start_streaming()) return false;
\* The processor of the engine has a SimulatedMarketDataSource, which streams
\* exactly while the processor runs.
MarketDataProcessor_start(running, connected) ==
    IF running THEN TRUE ELSE start_streaming(connected, running)

\* The outcomes of start() with the data source as it is: the TCP server can
\* fail whatever the data source (an exception of start_accept or of a thread
\* it spawns); the processor starts exactly if its data source does.
StartOutcomesOf(mdp, connected) ==
    {outcome \in StartOutcomes :
        \/ outcome = "tcp_failed"
        \/ (outcome = "started") = MarketDataProcessor_start(mdp, connected)}

\* MarketDataProcessor::connect_data_source: connected_.store(true).  The
\* engine keeps its processor private and never calls this: the action
\* stands for an engine whose data source has been connected, without which
\* no start() goes beyond the processor.
ConnectDataSource ==
    /\ ~connected_
    /\ connected_' = TRUE
    /\ UNCHANGED <<running_, shutdown_requested_, tcp_running, mdp_running,
                   control, submit_call, worker, aux, orders_processed,
                   total_latency_ns, delivered, trades_executed>>
    /\ UNCHANGED <<book_vars, ring_vars, registry_vars>>

\* matching_threads_.emplace_back(...): the thread is at the top of its loop.
Spawned == [pc |-> "loop", batch |-> <<>>]

\* if (running_.load()) return true;
start_returns_at_once(running) == running

\* start() up to the threads it spawns; running_ is not yet stored.
Start ==
    /\ control.pc = "idle"
    /\ IF start_returns_at_once(running_)
       THEN /\ control' = [op |-> "start", pc |-> "idle", ret |-> TRUE,
                           at_once |-> TRUE]
            /\ UNCHANGED <<tcp_running, mdp_running, worker, aux>>
       ELSE \E outcome \in StartOutcomesOf(mdp_running, connected_) :
              IF outcome = "started"
              THEN /\ tcp_running' = TRUE
                   /\ mdp_running' = TRUE
                   /\ worker' = [t \in Workers |-> Spawned]
                   /\ aux' = [t \in AuxThreads |-> "loop"]
                   /\ control' = [op |-> "start", pc |-> "start_store",
                                  ret |-> FALSE, at_once |-> FALSE]
              ELSE /\ tcp_running' = FALSE
                   /\ UNCHANGED <<mdp_running, worker, aux>>
                   /\ control' = [op |-> "start", pc |-> "idle", ret |-> FALSE,
                                  at_once |-> FALSE]
    /\ UNCHANGED <<running_, shutdown_requested_, submit_call, orders_processed,
                   total_latency_ns>>
    /\ UNCHANGED <<book_vars, ring_vars, registry_vars>>
    /\ UNCHANGED <<connected_, delivered, trades_executed>>

\* running_.store(true); return true;
StartStore ==
    /\ control.pc = "start_store"
    /\ running_' = TRUE
    /\ control' = [op |-> "start", pc |-> "idle", ret |-> TRUE,
                   at_once |-> FALSE]
    /\ UNCHANGED <<shutdown_requested_, tcp_running, mdp_running, submit_call,
                   worker, aux, orders_processed, total_latency_ns>>
    /\ UNCHANGED <<book_vars, ring_vars, registry_vars>>
    /\ UNCHANGED <<connected_, delivered, trades_executed>>

\* if (!running_.load()) return;
stop_returns_at_once(running) == ~running

\* stop() up to the joins: the flag is set and the two components stopped.
Stop ==
    /\ control.pc = "idle"
    /\ IF stop_returns_at_once(running_)
       THEN /\ control' = [op |-> "stop", pc |-> "idle", ret |-> FALSE,
                           at_once |-> TRUE]
            /\ UNCHANGED <<shutdown_requested_, tcp_running, mdp_running>>
       ELSE /\ shutdown_requested_' = TRUE
            /\ tcp_running' = FALSE
            /\ mdp_running' = FALSE
            /\ control' = [op |-> "stop", pc |-> "stop_join", ret |-> FALSE,
                           at_once |-> FALSE]
    /\ UNCHANGED <<running_, submit_call, worker, aux, orders_processed,
                   total_latency_ns>>
    /\ UNCHANGED <<book_vars, ring_vars, registry_vars>>
    /\ UNCHANGED <<connected_, delivered, trades_executed>>

AllExited_unjoined == TRUE

\* Every thread start() spawned has left its function.
AllExited ==
    /\ \A t \in Workers : worker[t].pc = "exited"
    /\ \A t \in AuxThreads : aux[t] = "exited"

\* The joins of stop() have returned: the threads are cleared,
\* running_.store(false); shutdown_requested_.store(false);
StopJoin ==
    /\ control.pc = "stop_join"
    /\ AllExited
    /\ worker' = [t \in Workers |-> NoWorker]
    /\ aux' = [t \in AuxThreads |-> "none"]
    /\ running_' = FALSE
    /\ shutdown_requested_' = FALSE
    /\ control' = [op |-> "stop", pc |-> "idle", ret |-> FALSE,
                   at_once |-> FALSE]
    /\ UNCHANGED <<tcp_running, mdp_running, submit_call, orders_processed,
                   total_latency_ns>>
    /\ UNCHANGED <<book_vars, ring_vars, registry_vars>>
    /\ UNCHANGED <<connected_, delivered, trades_executed>>

submit_refused_never(running) == FALSE

\* if (!running_.load() || !order) return false;
submit_refused(running) == ~running

\* The orders the clients submit: LIMIT orders to buy one quantity at one
\* price, under an id that is new or that an earlier order carried.
SubmittedOrders ==
    {o \in NewOrders(KnownIds, {"LIMIT"}, {1}, {MaxPriceTick}, {0}) :
        o.side = "BUY"}

\* The handles no Order object has.
FreeHandles == {h \in Handles : orders[h] = NoOrder}

\* submit_order(order) is called.  When the engine runs, the order is a new
\* object and try_push loads tail_.
SubmitOrder(t) ==
    /\ submit_call[t].pc = "idle"
    /\ IF submit_refused(running_)
       THEN /\ submit_call' = [submit_call EXCEPT ![t] =
                   [op |-> "submit_order", pc |-> "idle", h |-> NoItem,
                    ret |-> FALSE, full |-> FALSE, since_full |-> "none"]]
            /\ UNCHANGED <<orders, ring_vars>>
       ELSE /\ FreeHandles # {}
            /\ LET h == CHOOSE f \in FreeHandles : \A g \in FreeHandles : f <= g
               IN  /\ \E o \in SubmittedOrders :
                        orders' = [orders EXCEPT ![h] = o]
                   /\ try_push_load_tail(t, h)
                   /\ submit_call' = [submit_call EXCEPT ![t] =
                          [op |-> "submit_order", pc |-> "try_push", h |-> h,
                           ret |-> FALSE, full |-> FALSE,
                           since_full |-> IF @.since_full = "drained"
                                          THEN "retry" ELSE "none"]]
            /\ UNCHANGED <<next_item, push_log, pop_log>>
    /\ UNCHANGED <<next_handle, next_id, bids_, asks_, orders_by_id_,
                   recent_trades_, total_orders_, total_trades_, total_volume_,
                   clock, last, match_log>>
    /\ UNCHANGED <<running_, shutdown_requested_, tcp_running, mdp_running,
                   control, worker, aux, orders_processed, total_latency_ns>>
    /\ UNCHANGED registry_vars
    /\ UNCHANGED lock_vars
    /\ UNCHANGED <<connected_, delivered, trades_executed>>

\* if (!order_buffer_->try_push(order)) return false;  The order that was
\* refused is destroyed.  The ring takes MaxSubmits orders: a call that finds
\* room after that goes no further.
SubmitLoadHead(t) ==
    /\ submit_call[t].pc = "try_push"
    /\ try_push_load_head(t)
    /\ IF InRingCall(t, "idle")'
       THEN /\ submit_call' = [submit_call EXCEPT ![t] =
                   [@ EXCEPT !.pc = "idle", !.h = NoItem, !.ret = FALSE,
                             !.full = TRUE, !.since_full = "refused"]]
            /\ orders' = [orders EXCEPT ![submit_call[t].h] = NoOrder]
       ELSE /\ total_latency_ns < MaxSubmits
            /\ UNCHANGED <<submit_call, orders>>
    /\ UNCHANGED <<next_handle, next_id, bids_, asks_, orders_by_id_,
                   recent_trades_, total_orders_, total_trades_, total_volume_,
                   clock, last, match_log, next_item, push_log, pop_log>>
    /\ UNCHANGED <<running_, shutdown_requested_, tcp_running, mdp_running,
                   control, worker, aux, orders_processed, total_latency_ns>>
    /\ UNCHANGED registry_vars
    /\ UNCHANGED lock_vars
    /\ UNCHANGED <<connected_, delivered, trades_executed>>

SubmitWrite(t) ==
    /\ submit_call[t].pc = "try_push"
    /\ try_push_write(t)
    /\ UNCHANGED <<next_item, push_log, pop_log>>
    /\ UNCHANGED <<book_vars, engine_vars, registry_vars>>

\* try_push returns true; update_performance_metrics(latency); return true;
\* Every latency measured is one tick.  The id of the order is now one the
\* engine has taken.
SubmitStoreTail(t) ==
    /\ submit_call[t].pc = "try_push"
    /\ try_push_store_tail(t)
    /\ next_id' = IF orders[submit_call[t].h].order_id = next_id
                  THEN next_id + 1 ELSE next_id
    /\ submit_call' = [submit_call EXCEPT ![t] =
           [@ EXCEPT !.pc = "idle", !.ret = TRUE, !.since_full = "none"]]
    /\ total_latency_ns' = total_latency_ns + 1
    /\ UNCHANGED <<running_, shutdown_requested_, tcp_running, mdp_running,
                   control, worker, aux, orders_processed>>
    /\ UNCHANGED <<orders, next_handle, bids_, asks_, orders_by_id_,
                   recent_trades_, total_orders_, total_trades_, total_volume_,
                   clock, last, match_log>>
    /\ UNCHANGED <<next_item, push_log, pop_log, registry_vars>>
    /\ UNCHANGED lock_vars
    /\ UNCHANGED <<connected_, delivered, trades_executed>>

\* matching_thread_worker: while (!shutdown_requested_.load()), then
\* process_order_batch() begins with an empty vector.
WorkerLoop(t) ==
    /\ worker[t].pc = "loop"
    /\ worker' = [worker EXCEPT ![t].pc =
           IF shutdown_requested_ THEN "exited" ELSE "collect"]
    /\ UNCHANGED <<running_, shutdown_requested_, tcp_running, mdp_running,
                   control, submit_call, aux, orders_processed,
                   total_latency_ns>>
    /\ UNCHANGED <<book_vars, ring_vars, registry_vars>>
    /\ UNCHANGED <<connected_, delivered, trades_executed>>

\* Where process_order_batch goes with the orders collected: to the orders,
\* or back to the loop of the thread (the sleep changes nothing).
AfterCollect(batch) == IF batch = <<>> THEN "loop" ELSE "process"

\* while (orders.size() < 100) try_pop(order) is called.
WorkerPop(t) ==
    /\ worker[t].pc = "collect"
    /\ IF Len(worker[t].batch) < BatchLimit
       THEN /\ try_pop_load_head(t)
            /\ UNCHANGED worker
       ELSE /\ worker' = [worker EXCEPT ![t].pc = "process"]
            /\ UNCHANGED <<buffer_, head_, tail_, ring_call>>
    /\ UNCHANGED <<running_, shutdown_requested_, tcp_running, mdp_running,
                   control, submit_call, aux, orders_processed,
                   total_latency_ns>>
    /\ UNCHANGED <<next_item, push_log, pop_log, book_vars, registry_vars>>
    /\ UNCHANGED <<connected_, delivered, trades_executed>>

\* if (!order_buffer_->try_pop(order)) break;
WorkerPopLoadTail(t) ==
    /\ worker[t].pc = "collect"
    /\ try_pop_load_tail(t)
    /\ worker' = [worker EXCEPT ![t].pc =
           IF InRingCall(t, "idle")' THEN AfterCollect(worker[t].batch)
                                     ELSE "collect"]
    /\ UNCHANGED <<running_, shutdown_requested_, tcp_running, mdp_running,
                   control, submit_call, aux, orders_processed,
                   total_latency_ns>>
    /\ UNCHANGED <<next_item, push_log, pop_log, book_vars, registry_vars>>
    /\ UNCHANGED <<connected_, delivered, trades_executed>>

WorkerPopRead(t) ==
    /\ worker[t].pc = "collect"
    /\ try_pop_read(t)
    /\ UNCHANGED <<next_item, push_log, pop_log>>
    /\ UNCHANGED <<book_vars, engine_vars, registry_vars>>

\* try_pop returns true; orders.push_back(order);
WorkerPopStoreHead(t) ==
    /\ worker[t].pc = "collect"
    /\ try_pop_store_head(t)
    /\ worker' = [worker EXCEPT ![t].batch = Append(@, ring_call[t].item)]
    /\ submit_call' = [c \in Submitters |->
           IF submit_call[c].since_full = "refused"
           THEN [submit_call[c] EXCEPT !.since_full = "drained"]
           ELSE submit_call[c]]
    /\ UNCHANGED <<running_, shutdown_requested_, tcp_running, mdp_running,
                   control, aux, orders_processed, total_latency_ns>>
    /\ UNCHANGED <<next_item, push_log, pop_log, book_vars, registry_vars>>
    /\ UNCHANGED <<connected_, delivered, trades_executed>>

\* The orders of the batch that remain after its first.
AfterOrder(batch) == IF Len(batch) > 1 THEN "process" ELSE "loop"

\* for (auto& order : orders): get_or_create_order_book(order->symbol), under
\* the lock of the manager, and add_order(order), under the lock of the book.
\* A null order is dereferenced: the thread ends there.
WorkerAdd(t) ==
    /\ worker[t].pc = "process"
    /\ LET h == Head(worker[t].batch)
       IN  IF h = NoItem
           THEN /\ worker' = [worker EXCEPT ![t].pc = "crashed"]
                /\ UNCHANGED <<orders, bids_, asks_, orders_by_id_,
                               recent_trades_, total_orders_, total_trades_,
                               total_volume_, match_log, delivered>>
           ELSE \E r \in add_order(Entering(orders), h) :
                  /\ Leaving([r.b EXCEPT !.log = <<>>])
                  /\ delivered' = [delivered EXCEPT ![h] = Min(@ + 1, MaxDeliveries)]
                  /\ worker' = [worker EXCEPT ![t] =
                        IF r.ret
                        THEN [@ EXCEPT !.pc = "count"]
                        ELSE [pc |-> AfterOrder(@.batch),
                              batch |-> Tail(@.batch)]]
    /\ UNCHANGED <<next_handle, next_id, clock, last>>
    /\ UNCHANGED <<running_, shutdown_requested_, tcp_running, mdp_running,
                   control, submit_call, aux, orders_processed,
                   total_latency_ns>>
    /\ UNCHANGED <<ring_vars, registry_vars>>
    /\ UNCHANGED lock_vars
    /\ UNCHANGED <<connected_, trades_executed>>

orders_processed_keep(n) == n

\* metrics_.orders_processed.fetch_add(1, relaxed);
orders_processed_add(n) == n + 1

WorkerCount(t) ==
    /\ worker[t].pc = "count"
    /\ orders_processed' = orders_processed_add(orders_processed)
    /\ worker' = [worker EXCEPT ![t] =
           [pc |-> AfterOrder(@.batch), batch |-> Tail(@.batch)]]
    /\ UNCHANGED <<running_, shutdown_requested_, tcp_running, mdp_running,
                   control, submit_call, aux, total_latency_ns>>
    /\ UNCHANGED <<book_vars, ring_vars, registry_vars>>
    /\ UNCHANGED <<connected_, delivered, trades_executed>>

\* market_data_thread_worker and metrics_thread_worker:
\* while (!shutdown_requested_.load()) { ...; sleep }.  What the bodies do
\* touches neither the order ring, nor a book, nor orders_processed.
AuxLoop(t) ==
    /\ aux[t] = "loop"
    /\ aux' = [aux EXCEPT ![t] = IF shutdown_requested_ THEN "exited" ELSE "loop"]
    /\ UNCHANGED <<running_, shutdown_requested_, tcp_running, mdp_running,
                   control, submit_call, worker, orders_processed,
                   total_latency_ns>>
    /\ UNCHANGED <<book_vars, ring_vars, registry_vars>>
    /\ UNCHANGED <<connected_, delivered, trades_executed>>

Submit == \E t \in Submitters : SubmitOrder(t)
PushLoadHeadOfSubmit == \E t \in Submitters : SubmitLoadHead(t)
PushWriteOfSubmit == \E t \in Submitters : SubmitWrite(t)
PushStoreTailOfSubmit == \E t \in Submitters : SubmitStoreTail(t)
MatchingLoop == \E t \in Workers : WorkerLoop(t)
MatchingPop == \E t \in Workers : WorkerPop(t)
MatchingPopLoadTail == \E t \in Workers : WorkerPopLoadTail(t)
MatchingPopRead == \E t \in Workers : WorkerPopRead(t)
MatchingPopStoreHead == \E t \in Workers : WorkerPopStoreHead(t)
MatchingAdd == \E t \in Workers : WorkerAdd(t)
MatchingCount == \E t \in Workers : WorkerCount(t)
AuxStep == \E t \in AuxThreads : AuxLoop(t)

\* The steps of the threads start() spawned.
NextThreads ==
    \/ MatchingLoop \/ MatchingPop \/ MatchingPopLoadTail \/ MatchingPopRead
    \/ MatchingPopStoreHead \/ MatchingAdd \/ MatchingCount \/ AuxStep

NextEngine ==
    \/ ConnectDataSource
    \/ Start \/ StartStore \/ Stop \/ StopJoin
    \/ Submit \/ PushLoadHeadOfSubmit \/ PushWriteOfSubmit
    \/ PushStoreTailOfSubmit
    \/ NextThreads

\* The engine as constructed, its order ring of 2 ^ OrderRingBits slots.
InitEngine ==
    /\ BookInit
    /\ RingInit(OrderRingBits)
    /\ EngineInit
    /\ RegistryInit

SpecEngine == InitEngine /\ [][NextEngine]_vars

\* The steps of one matching thread.
WorkerStep(t) ==
    \/ WorkerLoop(t) \/ WorkerPop(t) \/ WorkerPopLoadTail(t) \/ WorkerPopRead(t)
    \/ WorkerPopStoreHead(t) \/ WorkerAdd(t) \/ WorkerCount(t)

\* The engine under a fair scheduler: a thread start() spawned that can take
\* a step takes one, and so does the thread in stop() once its joins can
\* return.  Nothing is assumed of the clients nor of the calls of start() and
\* stop().
Fairness ==
    /\ \A t \in Workers : WF_vars(WorkerStep(t))
    /\ \A t \in AuxThreads : WF_vars(AuxLoop(t))
    /\ WF_vars(StopJoin)

SpecEngineFair == InitEngine /\ [][NextEngine]_vars /\ Fairness


(***************************************************************************)
(* Properties of the engine.                                                *)
(***************************************************************************)
\* What submit_order must leave alone when it returns false: the ladders, the
\* index and the counters of the book, the counters of the engine, and the
\* order ring.
Untouched ==
    UNCHANGED <<bids_, asks_, orders_by_id_, recent_trades_, total_orders_,
                total_trades_, total_volume_, orders_processed,
                total_latency_ns, buffer_, head_, tail_>>

\* submit_order of thread t is called, and returns.
SubmitCalled(t) == submit_call[t].pc = "idle" /\ submit_call'[t] # submit_call[t]
                   /\ submit_call'[t].since_full \in {"none", "retry"}
SubmitReturns(t) == submit_call'[t].pc = "idle" /\ submit_call'[t] # submit_call[t]
                    /\ submit_call'[t].since_full \in {"none", "refused"}

\* C15: backpressure.  A submit_order that finds the order ring full returns
\* false and changes neither the ring, nor a book, nor a counter; and once a
\* worker has taken an order from the ring after such a refusal, the next
\* submit_order of the thread (the engine running) is not refused for a full
\* ring.
C15_Backpressure ==
    [][\A t \in Submitters :
         /\ (PushDecides(t) /\ full)
              => SubmitReturns(t) /\ ~submit_call'[t].ret /\ Untouched
         /\ (SubmitCalled(t) \/ (SubmitReturns(t) /\ ~submit_call'[t].ret))
              => Untouched
         /\ (PushDecides(t) /\ submit_call[t].since_full = "retry")
              => ~SubmitReturns(t)]_vars


\* C16: a submit_order called while running_ is false returns false without
\* calling try_push, and changes neither the order ring, nor a book, nor a
\* counter.
C16_NotRunningRefused ==
    [][\A t \in Submitters :
         (SubmitCalled(t) /\ ~running_)
           => /\ submit_call'[t].pc = "idle"
              /\ ~submit_call'[t].ret /\ ~submit_call'[t].full
              /\ UNCHANGED ring_call
              /\ Untouched]_vars

\* stop() has returned after the ring took an order, and the submit_order
\* called since then has returned false, not for a full ring.
C16_Witness ==
    /\ ~running_ /\ control.op = "stop" /\ control.pc = "idle"
    /\ total_latency_ns > 0
    /\ \E t \in Submitters :
         /\ submit_call[t].op = "submit_order" /\ submit_call[t].pc = "idle"
         /\ ~submit_call[t].ret /\ ~submit_call[t].full

\* C17: a start() that finds the engine running returns false and spawns no
\* thread.
C17_StartWhileRunning ==
    [][(control' # control /\ control'.op = "start" /\ control'.at_once)
         => ~control'.ret /\ UNCHANGED <<worker, aux>>]_vars

\* The matching threads between an add_order that returned true and the
\* increment that follows it.
Counting == {t \in Workers : worker[t].pc = "count"}

\* C19: orders_processed counts the admissions: with the threads that are
\* between an add_order that returned true and their increment, it is the
\* number of orders the book has admitted; so it equals that number whenever
\* no thread is in between.
C19_OrdersProcessedCountsAdmissions ==
    orders_processed + Cardinality(Counting) = total_orders_

\* Two orders of one id went through the ring, the threads are back at their
\* loops, and one order was admitted and counted.
C19_Witness ==
    /\ total_latency_ns = 2
    /\ \E g, h \in Handles :
         /\ g # h /\ orders[g] # NoOrder /\ orders[h] # NoOrder
         /\ orders[g].order_id = orders[h].order_id
    /\ empty
    /\ \A t \in Workers : worker[t].pc = "loop"
    /\ orders_processed = 1


\* stop() has found the engine running and has not returned; stop() has
\* returned from its joins.
Stopping == control.op = "stop" /\ control.pc = "stop_join"
Stopped == control.op = "stop" /\ control.pc = "idle" /\ ~control.at_once

\* C18: under a fair scheduler a stop() that found the engine running
\* returns; at its return every matching, market-data and metrics thread has
\* left its function and running_ is false; and a stop() that finds the
\* engine not running returns at once and changes nothing.
C18_StopTerminates ==
    /\ Stopping ~> Stopped
    /\ [][(Stopping /\ Stopped')
            => /\ \A t \in Workers : worker[t].pc = "exited"
               /\ \A t \in AuxThreads : aux[t] = "exited"
               /\ ~running_']_vars
    /\ [][(control' # control /\ control'.op = "stop" /\ ~running_)
            => /\ control'.pc = "idle" /\ control'.at_once
               /\ UNCHANGED <<running_, shutdown_requested_, tcp_running,
                              mdp_running, submit_call, worker, aux,
                              orders_processed, total_latency_ns>>
               /\ UNCHANGED <<book_vars, ring_vars, registry_vars>>]_vars

\* A stop() that found orders in the ring and in the book has returned, and
\* the stop() after it has returned at once.
C18_Witness ==
    /\ control.op = "stop" /\ control.pc = "idle" /\ control.at_once
    /\ ~running_ /\ ~shutdown_requested_
    /\ \A t \in Workers : worker[t].pc = "none"
    /\ \A t \in AuxThreads : aux[t] = "none"
    /\ total_latency_ns = MaxSubmits
    /\ orders_processed > 0


(***************************************************************************)
(* OrderBookManager::get_or_create_order_book (part_000), called by several *)
(* threads.  A step is the acquisition of rw_mutex_, the find, the          *)
(* make_shared, or the insertion with the return that releases the lock.    *)
(***************************************************************************)
lock_free_always(holder) == TRUE

\* std::unique_lock<std::shared_mutex> lock(rw_mutex_) can be taken.
lock_free(holder) == holder = NoThread

\* get_or_create_order_book(symbol) is called and takes the lock.
GetOrCreate(t, symbol) ==
    /\ registry_call[t].pc = "idle"
    /\ lock_free(registry_mutex)
    /\ registry_mutex' = t
    /\ registry_call' = [registry_call EXCEPT ![t] =
           [op |-> "get_or_create_order_book", pc |-> "find",
            symbol |-> symbol, found |-> NoBook, ret |-> NoBook]]
    /\ UNCHANGED <<order_books_, books_made>>
    /\ UNCHANGED <<book_vars, ring_vars, engine_vars>>
    /\ UNCHANGED <<other_book, call_symbol>>

\* auto it = order_books_.find(symbol);
\* if (it != order_books_.end()) return it->second;
Find(t) ==
    /\ registry_call[t].pc = "find"
    /\ LET it == order_books_[registry_call[t].symbol]
       IN  IF it # NoBook
           THEN /\ registry_call' = [registry_call EXCEPT
                       ![t].pc = "idle", ![t].found = it, ![t].ret = it]
                /\ registry_mutex' = NoThread
           ELSE /\ registry_call' = [registry_call EXCEPT ![t].pc = "make"]
                /\ UNCHANGED registry_mutex
    /\ UNCHANGED <<order_books_, books_made>>
    /\ UNCHANGED <<book_vars, ring_vars, engine_vars>>
    /\ UNCHANGED <<other_book, call_symbol>>

\* auto order_book = std::make_shared<OrderBook>(symbol);
Make(t) ==
    /\ registry_call[t].pc = "make"
    /\ books_made' = books_made + 1
    /\ registry_call' = [registry_call EXCEPT ![t].pc = "insert",
                                              ![t].ret = books_made + 1]
    /\ UNCHANGED <<order_books_, registry_mutex>>
    /\ UNCHANGED <<book_vars, ring_vars, engine_vars>>
    /\ UNCHANGED <<other_book, call_symbol>>

\* order_books_[symbol] = order_book; return order_book;
Insert(t) ==
    /\ registry_call[t].pc = "insert"
    /\ order_books_' = [order_books_ EXCEPT ![registry_call[t].symbol] =
                                               registry_call[t].ret]
    /\ registry_call' = [registry_call EXCEPT ![t].pc = "idle"]
    /\ registry_mutex' = NoThread
    /\ UNCHANGED books_made
    /\ UNCHANGED <<book_vars, ring_vars, engine_vars>>
    /\ UNCHANGED <<other_book, call_symbol>>

GetOrCreateOrderBook == \E t \in RegistryThreads, symbol \in Symbols :
                            GetOrCreate(t, symbol)
FindBook == \E t \in RegistryThreads : Find(t)
MakeBook == \E t \in RegistryThreads : Make(t)
InsertBook == \E t \in RegistryThreads : Insert(t)

NextRegistry == GetOrCreateOrderBook \/ FindBook \/ MakeBook \/ InsertBook

SpecRegistry == Init /\ [][NextRegistry]_vars

\* The calls of get_or_create_order_book(symbol) that have returned: one per
\* thread, its latest.
ReturnedFor(symbol) ==
    {t \in RegistryThreads :
        /\ registry_call[t].op = "get_or_create_order_book"
        /\ registry_call[t].pc = "idle"
        /\ registry_call[t].symbol = symbol}

\* C20: get_or_create_order_book is idempotent under concurrency.  Every call
\* for a symbol returns the OrderBook the registry holds for that symbol, an
\* entry of the registry never changes once it is made, and no OrderBook is
\* constructed besides the ones the registry holds: so all calls for a symbol,
\* from whatever threads, return one instance.
C20_GetOrCreateIdempotent ==
    [][/\ \A symbol \in Symbols :
            /\ \A t \in ReturnedFor(symbol) :
                  registry_call[t].ret = order_books_[symbol]
                  /\ registry_call[t].ret # NoBook
            /\ order_books_[symbol] # NoBook
                  => order_books_'[symbol] = order_books_[symbol]
       /\ books_made = Cardinality({symbol \in Symbols :
                                       order_books_[symbol] # NoBook})
            \/ \E t \in RegistryThreads : registry_call[t].pc = "insert"]_vars

\* Two threads have called for one symbol: one found no book and made it, the
\* other found the book the first had made.
C20_Witness ==
    \E t, u \in RegistryThreads :
        /\ t # u
        /\ {t, u} \subseteq ReturnedFor(BookSymbol)
        /\ registry_call[t].found = NoBook
        /\ registry_call[u].found # NoBook
        /\ registry_call[t].ret = registry_call[u].ret

(***************************************************************************)
(* OrderBook: the read operations, as functions of the book `b`.           *)
(***************************************************************************)
\* get_snapshot asks get_bids and get_asks for 10 levels.
SnapshotLevels == 10

\* uint64_t total_quantity = 0; for (order : orders) total_quantity +=
\* order->remaining_quantity();
RECURSIVE total_quantity(_, _)
total_quantity(level, heap) ==
    IF level = <<>>
    THEN 0
    ELSE (remaining_quantity(heap[Head(level)])
          + total_quantity(Tail(level), heap)) % WordMod

\* get_bids(levels): for ([price, orders] : bids_) from begin(), while
\* count < levels, emplace_back(price, total_quantity).
RECURSIVE get_bids(_, _)
get_bids(b, levels) ==
    IF levels = 0 \/ DOMAIN b.bids = {}
    THEN <<>>
    ELSE LET price == BidsBegin(b.bids)
         IN  <<<<price, total_quantity(b.bids[price], b.orders)>>>>
             \o get_bids([b EXCEPT !.bids = MapErase(@, price)], levels - 1)

\* get_asks(levels): the same over asks_.
RECURSIVE get_asks(_, _)
get_asks(b, levels) ==
    IF levels = 0 \/ DOMAIN b.asks = {}
    THEN <<>>
    ELSE LET price == AsksBegin(b.asks)
         IN  <<<<price, total_quantity(b.asks[price], b.orders)>>>>
             \o get_asks([b EXCEPT !.asks = MapErase(@, price)], levels - 1)

\* get_snapshot(): symbol, get_bids(10), get_asks(10); the timestamp is left
\* out.
get_snapshot(b) ==
    [symbol |-> BookSymbol, bids |-> get_bids(b, SnapshotLevels),
     asks |-> get_asks(b, SnapshotLevels)]

(***************************************************************************)
(* OrderBook under concurrent callers: one thread calls add_order,         *)
(* cancel_order and modify_order while another calls get_bids, get_asks    *)
(* and get_snapshot.  Each call is taken in the steps rw_mutex_ separates: *)
(* the request of the lock, and, for a writer, the changes before and      *)
(* after the point where the book is between two consistent states.        *)
(***************************************************************************)
\* Mutant of unique_lock_free: the exclusive lock is given while readers own
\* the mutex.
unique_lock_free_among_readers(m) == ~m.unique

\* std::unique_lock<std::shared_mutex> lock(rw_mutex_) returns.
unique_lock_free(m) == ~m.unique /\ m.shared = 0

\* std::shared_lock<std::shared_mutex> lock(rw_mutex_) returns.
shared_lock_free(m) == ~m.unique

\* add_order from the index to the counter: orders_by_id_[id] = order,
\* add_to_*_level, total_orders_++.  The order is in the book, nothing is
\* matched.
add_order_inserts(b, h) ==
    LET o == b.orders[h]
        side == SideOf(o)
    IN  {[b EXCEPT !.orders_by_id = MapPut(@, o.order_id, h),
                   ![side] = ladder,
                   !.total_orders = @ + 1] :
         ladder \in add_to_level(b[side], o.price, h, b.orders)}

\* add_order from process_*_order to its return.
add_order_matches(b, h) ==
    match_orders(IF b.orders[h].type = "MARKET"
                 THEN process_market_order(b, h)
                 ELSE process_limit_order(b, h))

\* cancel_order up to remove_from_*_level: the order has left its level and
\* is still in the index.
cancel_order_removes(b, h) ==
    LET o == b.orders[h]
    IN  [b EXCEPT ![SideOf(o)] =
            remove_from_level(@, o.price, o.order_id, b.orders)]

\* cancel_order from orders_by_id_.erase to its return.
cancel_order_erases(b, h) ==
    LET b2 == [b EXCEPT !.orders_by_id = MapErase(@, b.orders[h].order_id),
                        !.orders = [@ EXCEPT ![h].status = "CANCELLED"],
                        !.total_orders = (@ - 1) % WordMod]
    IN  [b2 EXCEPT !.bids = cleanup_empty_levels(@),
                   !.asks = cleanup_empty_levels(@)]

\* modify_order up to add_to_*_level: the order has its new quantity, price
\* and timestamp and rests in its new level, nothing is matched.
modify_order_reinserts(b, h, new_quantity, new_price, now) ==
    LET o == b.orders[h]
        side == SideOf(o)
        b1 == [b EXCEPT
                 ![side] = remove_from_level(@, o.price, o.order_id, b.orders)]
        b2 == [b1 EXCEPT !.orders = [@ EXCEPT ![h].quantity = new_quantity,
                                              ![h].price = new_price,
                                              ![h].timestamp = now]]
    IN  {[b2 EXCEPT ![side] = ladder] :
         ladder \in add_to_level(b2[side], new_price, h, b2.orders)}

\* modify_order from match_orders to its return.
modify_order_matches(b) ==
    LET b4 == match_orders(b)
    IN  [b4 EXCEPT !.bids = cleanup_empty_levels(@),
                   !.asks = cleanup_empty_levels(@)]

\* The orders the writer adds, and the quantities it modifies to.
WrittenOrders == NewOrders(KnownIds, {"LIMIT"}, {1}, Prices, {0})

\* add_order(order) is called: the symbol is that of the book, the lock is
\* requested.
CallAddOrder ==
    /\ Idle /\ write_call.pc = "idle"
    /\ next_handle <= MaxOrders
    /\ \E o \in WrittenOrders :
          /\ orders' = [orders EXCEPT ![next_handle] = o]
          /\ write_call' = [op |-> "add_order", pc |-> "lock",
                            order_id |-> o.order_id, h |-> next_handle,
                            new_quantity |-> 0, new_price |-> 0]
    /\ UNCHANGED <<next_handle, next_id, bids_, asks_, orders_by_id_,
                   recent_trades_, total_orders_, total_trades_, total_volume_,
                   clock, last, match_log, rw_mutex_, read_call>>
    /\ UNCHANGED <<ring_vars, engine_vars, registry_vars>>

CallCancelOrder ==
    /\ Idle /\ write_call.pc = "idle"
    /\ \E order_id \in KnownIds :
          write_call' = [op |-> "cancel_order", pc |-> "lock",
                         order_id |-> order_id, h |-> 0,
                         new_quantity |-> 0, new_price |-> 0]
    /\ UNCHANGED <<orders, next_handle, next_id, bids_, asks_, orders_by_id_,
                   recent_trades_, total_orders_, total_trades_, total_volume_,
                   clock, last, match_log, rw_mutex_, read_call>>
    /\ UNCHANGED <<ring_vars, engine_vars, registry_vars>>

CallModifyOrder ==
    /\ Idle /\ write_call.pc = "idle"
    /\ \E order_id \in KnownIds, new_price \in Prices :
          write_call' = [op |-> "modify_order", pc |-> "lock",
                         order_id |-> order_id, h |-> 0,
                         new_quantity |-> 1, new_price |-> new_price]
    /\ UNCHANGED <<orders, next_handle, next_id, bids_, asks_, orders_by_id_,
                   recent_trades_, total_orders_, total_trades_, total_volume_,
                   clock, last, match_log, rw_mutex_, read_call>>
    /\ UNCHANGED <<ring_vars, engine_vars, registry_vars>>

\* The writer owns rw_mutex_.
WriteLock ==
    /\ write_call.pc = "lock"
    /\ unique_lock_free(rw_mutex_)
    /\ rw_mutex_' = [rw_mutex_ EXCEPT !.unique = TRUE]
    /\ write_call' = [write_call EXCEPT !.pc = "find"]
    /\ UNCHANGED <<orders, next_handle, next_id, bids_, asks_, orders_by_id_,
                   recent_trades_, total_orders_, total_trades_, total_volume_,
                   clock, last, match_log, read_call>>
    /\ UNCHANGED <<ring_vars, engine_vars, registry_vars>>

\* The call finds the id as it must not (add_order) or does not find it
\* (cancel_order, modify_order).
WriteRejects(b, w) ==
    IF w.op = "add_order"
    THEN w.order_id \in DOMAIN b.orders_by_id
    ELSE w.order_id \notin DOMAIN b.orders_by_id

\* The books the first part of the call can leave.
WriteFirstPart(b, w, h) ==
    IF w.op = "add_order" THEN add_order_inserts(b, h)
    ELSE IF w.op = "cancel_order" THEN {cancel_order_removes(b, h)}
    ELSE modify_order_reinserts(b, h, w.new_quantity, w.new_price, clock)

\* The book the second part of the call leaves.
WriteSecondPart(b, w) ==
    IF w.op = "add_order" THEN add_order_matches(b, w.h)
    ELSE IF w.op = "cancel_order" THEN cancel_order_erases(b, w.h)
    ELSE modify_order_matches(b)

\* The look-up in orders_by_id_ and, when the call goes on, its first part;
\* a call that returns false releases the lock.
WriteBegin ==
    /\ write_call.pc = "find"
    /\ LET b == Entering(orders)
           h == IF write_call.op = "add_order" THEN write_call.h
                ELSE HandleOf(write_call.order_id)
       IN  IF WriteRejects(b, write_call)
           THEN /\ write_call' = NoWrite
                /\ rw_mutex_' = [rw_mutex_ EXCEPT !.unique = FALSE]
                /\ last' = [op |-> write_call.op, ret |-> FALSE, h |-> h,
                            order_id |-> write_call.order_id]
                /\ UNCHANGED <<orders, bids_, asks_, orders_by_id_,
                               recent_trades_, total_orders_, total_trades_,
                               total_volume_, match_log>>
           ELSE /\ \E b1 \in WriteFirstPart(b, write_call, h) : Leaving(b1)
                /\ write_call' = [write_call EXCEPT !.pc = "match", !.h = h]
                /\ UNCHANGED <<rw_mutex_, last>>
    /\ UNCHANGED <<next_handle, next_id, clock, read_call>>
    /\ UNCHANGED <<ring_vars, engine_vars, registry_vars>>

\* The second part of the call; it returns true and the lock is released.
WriteEnd ==
    /\ write_call.pc = "match"
    /\ Leaving(WriteSecondPart(Entering(orders), write_call))
    /\ write_call' = NoWrite
    /\ rw_mutex_' = [rw_mutex_ EXCEPT !.unique = FALSE]
    /\ last' = [op |-> write_call.op, ret |-> TRUE, h |-> write_call.h,
                order_id |-> write_call.order_id]
    /\ next_handle' = IF write_call.op = "add_order"
                      THEN next_handle + 1 ELSE next_handle
    /\ next_id' = IF write_call.op = "add_order" /\ write_call.order_id = next_id
                  THEN next_id + 1 ELSE next_id
    /\ UNCHANGED <<clock, read_call>>
    /\ UNCHANGED <<ring_vars, engine_vars, registry_vars>>

\* The numbers of levels the reader asks get_bids and get_asks for.
ReadLevels == {1, SnapshotLevels}

\* get_bids(levels), get_asks(levels) or get_snapshot() is called.
CallRead ==
    /\ read_call.pc = "idle"
    /\ \E op \in {"get_bids", "get_asks", "get_snapshot"}, levels \in ReadLevels :
          /\ op = "get_snapshot" => levels = SnapshotLevels
          /\ read_call' = [NoRead EXCEPT !.op = op, !.pc = "lock",
                                         !.levels = levels]
    /\ UNCHANGED <<orders, next_handle, next_id, bids_, asks_, orders_by_id_,
                   recent_trades_, total_orders_, total_trades_, total_volume_,
                   clock, last, match_log, rw_mutex_, write_call>>
    /\ UNCHANGED <<ring_vars, engine_vars, registry_vars>>

\* Where a call goes with the lock it asked for.
AfterReadLock(op) ==
    IF op = "get_bids" THEN "bids"
    ELSE IF op = "get_asks" THEN "asks" ELSE "snapshot"

\* The shared lock of the call is taken.
ReadLock ==
    /\ read_call.pc = "lock"
    /\ shared_lock_free(rw_mutex_)
    /\ rw_mutex_' = [rw_mutex_ EXCEPT !.shared = @ + 1]
    /\ read_call' = [read_call EXCEPT !.pc = AfterReadLock(read_call.op)]
    /\ UNCHANGED <<orders, next_handle, next_id, bids_, asks_, orders_by_id_,
                   recent_trades_, total_orders_, total_trades_, total_volume_,
                   clock, last, match_log, write_call>>
    /\ UNCHANGED <<ring_vars, engine_vars, registry_vars>>

\* get_snapshot owns the lock and calls get_bids(10), then get_asks(10), each
\* of which requests the shared lock again: lock_shared by a thread that owns
\* the mutex, which is undefined.  Here the request is granted, as an
\* implementation that counts its readers does.
SnapshotRelock ==
    /\ read_call.pc \in {"snapshot", "snapshot_asks"}
    /\ rw_mutex_' = [rw_mutex_ EXCEPT !.shared = @ + 1]
    /\ read_call' = [read_call EXCEPT
                        !.pc = IF @ = "snapshot" THEN "bids" ELSE "asks"]
    /\ UNCHANGED <<orders, next_handle, next_id, bids_, asks_, orders_by_id_,
                   recent_trades_, total_orders_, total_trades_, total_volume_,
                   clock, last, match_log, write_call>>
    /\ UNCHANGED <<ring_vars, engine_vars, registry_vars>>

\* The same request when a writer waits for the mutex and the implementation
\* lets no reader in before a waiting writer: the reader waits for the
\* writer, the writer for the reader, and neither call returns.
SnapshotRelockBlocks ==
    /\ read_call.pc \in {"snapshot", "snapshot_asks"}
    /\ write_call.pc = "lock"
    /\ read_call' = [read_call EXCEPT !.pc = "blocked"]
    /\ UNCHANGED <<orders, next_handle, next_id, bids_, asks_, orders_by_id_,
                   recent_trades_, total_orders_, total_trades_, total_volume_,
                   clock, last, match_log, rw_mutex_, write_call>>
    /\ UNCHANGED <<ring_vars, engine_vars, registry_vars>>

\* The loop of get_bids; its lock is released at its return.
ReadBids ==
    /\ read_call.pc = "bids"
    /\ read_call' = [read_call EXCEPT
          !.bids = get_bids(Entering(orders), read_call.levels),
          !.pc = IF read_call.op = "get_snapshot" THEN "snapshot_asks"
                 ELSE "done"]
    /\ rw_mutex_' = [rw_mutex_ EXCEPT !.shared = @ - 1]
    /\ UNCHANGED <<orders, next_handle, next_id, bids_, asks_, orders_by_id_,
                   recent_trades_, total_orders_, total_trades_, total_volume_,
                   clock, last, match_log, write_call>>
    /\ UNCHANGED <<ring_vars, engine_vars, registry_vars>>

\* The loop of get_asks; its lock is released at its return.
ReadAsks ==
    /\ read_call.pc = "asks"
    /\ read_call' = [read_call EXCEPT
          !.asks = get_asks(Entering(orders), read_call.levels),
          !.pc = IF read_call.op = "get_snapshot" THEN "return" ELSE "done"]
    /\ rw_mutex_' = [rw_mutex_ EXCEPT !.shared = @ - 1]
    /\ UNCHANGED <<orders, next_handle, next_id, bids_, asks_, orders_by_id_,
                   recent_trades_, total_orders_, total_trades_, total_volume_,
                   clock, last, match_log, write_call>>
    /\ UNCHANGED <<ring_vars, engine_vars, registry_vars>>

\* return snapshot; the lock of get_snapshot is released.
SnapshotReturn ==
    /\ read_call.pc = "return"
    /\ read_call' = [read_call EXCEPT !.pc = "done"]
    /\ rw_mutex_' = [rw_mutex_ EXCEPT !.shared = @ - 1]
    /\ UNCHANGED <<orders, next_handle, next_id, bids_, asks_, orders_by_id_,
                   recent_trades_, total_orders_, total_trades_, total_volume_,
                   clock, last, match_log, write_call>>
    /\ UNCHANGED <<ring_vars, engine_vars, registry_vars>>

\* The caller has taken the result.
ReadDone ==
    /\ read_call.pc = "done"
    /\ read_call' = NoRead
    /\ UNCHANGED <<orders, next_handle, next_id, bids_, asks_, orders_by_id_,
                   recent_trades_, total_orders_, total_trades_, total_volume_,
                   clock, last, match_log, rw_mutex_, write_call>>
    /\ UNCHANGED <<ring_vars, engine_vars, registry_vars>>

NextReaders ==
    \/ CallAddOrder \/ CallCancelOrder \/ CallModifyOrder
    \/ WriteLock \/ WriteBegin \/ WriteEnd \/ Return
    \/ CallRead \/ ReadLock \/ SnapshotRelock \/ SnapshotRelockBlocks
    \/ ReadBids \/ ReadAsks \/ SnapshotReturn \/ ReadDone

SpecReaders == Init /\ [][NextReaders]_vars

(***************************************************************************)
(* Further properties of the order book.                                   *)
(***************************************************************************)
\* The level of the ladders at the place `pl`.
LevelAt(pl) == IF pl[1] = "bids" THEN bids_[pl[2]] ELSE asks_[pl[2]]

\* C21: admission order is the tie-break within a price level: when
\* add_order has admitted an order and the order rests, it is behind every
\* order that already rested at its price, whatever timestamp it carries.
C21_AdmissionOrderTieBreak ==
    (last.op = "add_order" /\ last.ret /\ InBook(last.h))
    => \A pl \in PlacesOf(last.h) : pl[3] = Len(LevelAt(pl))

\* The sum of trade_price * trade_quantity over the trades of a log of
\* match_orders.
RECURSIVE VolumeOf(_)
VolumeOf(log) ==
    IF log = <<>>
    THEN 0
    ELSE Head(log).trade.trade_price * Head(log).trade.trade_quantity
         + VolumeOf(Tail(log))

C25_NoEmptyLevel ==
    /\ \A p \in DOMAIN bids_ : bids_[p] # <<>>
    /\ \A p \in DOMAIN asks_ : asks_[p] # <<>>

\* cancel_order has taken the last order out of a bid level, the level is
\* gone, and other bid levels remain.
C25_Witness ==
    /\ last.op = "cancel_order" /\ last.ret
    /\ orders[last.h].side = "BUY"
    /\ orders[last.h].price \notin DOMAIN bids_
    /\ DOMAIN bids_ # {}

\* C26: a level is ordered by timestamp: whenever a call has returned, no
\* order of a level has a timestamp later than that of an order behind it.
C26_LevelsOrderedByTimestamp ==
    \A pl \in Places :
        \A i, j \in DOMAIN LevelAt(pl) :
            i < j => orders[LevelAt(pl)[i]].timestamp
                        <= orders[LevelAt(pl)[j]].timestamp

\* add_order has put an order in front of one that rested at its price with
\* a later timestamp.
C26_Witness ==
    /\ last.op = "add_order" /\ last.ret /\ InBook(last.h)
    /\ \E pl \in PlacesOf(last.h) :
          /\ pl[3] = 1
          /\ Len(LevelAt(pl)) > 1
          /\ orders[last.h].timestamp < orders[LevelAt(pl)[2]].timestamp

\* C29: fully filled orders leave the book within the call that fills them:
\* whenever a call has returned, every order that rests in a level has a
\* remaining quantity above 0.
C29_RestingOrdersHaveRemaining ==
    \A pl \in Places :
        \A i \in DOMAIN LevelAt(pl) : Remaining(orders[LevelAt(pl)[i]]) > 0

\* C30: every trade recorded has a quantity above 0.
C30_TradeQuantityPositive ==
    /\ \A i \in DOMAIN recent_trades_ : recent_trades_[i].trade_quantity > 0
    /\ \A i \in DOMAIN match_log : match_log[i].trade.trade_quantity > 0

\* The sum of the remaining quantities of the orders of a level, remaining
\* being quantity - filled_quantity.
RECURSIVE SumRemaining(_)
SumRemaining(level) ==
    IF level = <<>> THEN 0
    ELSE Remaining(orders[Head(level)]) + SumRemaining(Tail(level))

\* The numbers of levels a caller asks for: none, some, all and more.
LevelCounts == 0..(MaxPriceTick + 1) \cup {SnapshotLevels}

\* `result` is the `n` best levels of `ladder`, best first, each with the sum
\* of the remaining quantities of its orders; `better(p, q)` says that price
\* p is better than price q.
BestLevels(result, ladder, n, better(_, _)) ==
    /\ Len(result) = Min(n, Cardinality(DOMAIN ladder))
    /\ \A i \in DOMAIN result :
          /\ result[i][1] \in DOMAIN ladder
          /\ result[i][2] = SumRemaining(ladder[result[i][1]])
    /\ \A i, j \in DOMAIN result : i < j => better(result[i][1], result[j][1])
    /\ \A i \in DOMAIN result :
          \A p \in DOMAIN ladder \ {result[k][1] : k \in DOMAIN result} :
              better(result[i][1], p)

\* C24: depth queries: whenever a call has returned, get_bids(n) is the
\* min(n, number of bid levels) highest bid levels in strictly descending
\* price, get_asks(n) the lowest ask levels in strictly ascending price, each
\* with the sum of the remaining quantities of its orders, and get_snapshot
\* holds get_bids(10) and get_asks(10), at most 10 levels a side.
C24_DepthQueries ==
    LET b == Entering(orders)
    IN  /\ \A n \in LevelCounts :
              /\ BestLevels(get_bids(b, n), bids_, n, LAMBDA p, q : p > q)
              /\ BestLevels(get_asks(b, n), asks_, n, LAMBDA p, q : p < q)
        /\ get_snapshot(b).bids = get_bids(b, SnapshotLevels)
        /\ get_snapshot(b).asks = get_asks(b, SnapshotLevels)
        /\ Len(get_snapshot(b).bids) <= SnapshotLevels
        /\ Len(get_snapshot(b).asks) <= SnapshotLevels

\* The book is as a whole call left it: the writer is not between the two
\* parts of a call.
BetweenCalls == write_call.pc # "match"

\* The reader owns rw_mutex_.
Reading ==
    read_call.pc \in {"snapshot", "bids", "snapshot_asks", "asks", "return",
                      "blocked"}

\* A snapshot whose best bid is at or above its best ask.
CrossedSnapshot(bids, asks) ==
    bids # <<>> /\ asks # <<>> /\ bids[1][1] >= asks[1][1]

\* C22: reads are linearizable with respect to add_order, cancel_order and
\* modify_order: while get_bids, get_asks or get_snapshot owns the lock, the
\* book is as a whole call left it and stays so, so that the bids and the asks
\* of a snapshot are those of one such book; a snapshot is never crossed.
C22_ReadsLinearizable ==
    LET b == Entering(orders)
    IN  /\ Reading => BetweenCalls /\ ~rw_mutex_.unique
        /\ (read_call.op = "get_snapshot"
            /\ read_call.pc \in {"snapshot_asks", "asks", "return"})
           => read_call.bids = get_bids(b, SnapshotLevels)
        /\ read_call.pc = "return"
           => /\ read_call.asks = get_asks(b, SnapshotLevels)
              /\ ~CrossedSnapshot(read_call.bids, read_call.asks)

\* get_snapshot has read both sides of the book while add_order waits for
\* the lock with an order that crosses the best ask.
C22_Witness ==
    /\ read_call.pc = "return"
    /\ read_call.bids # <<>> /\ read_call.asks # <<>>
    /\ write_call.op = "add_order" /\ write_call.pc = "lock"
    /\ orders[write_call.h].side = "BUY"
    /\ orders[write_call.h].price >= read_call.asks[1][1]

(***************************************************************************)
(* Further properties of the engine.                                       *)
(***************************************************************************)
\* submit_order has returned true for the order object h.
Accepted(h) ==
    /\ orders[h] # NoOrder
    /\ \A t \in Submitters :
          ~(submit_call[t].pc = "try_push" /\ submit_call[t].h = h)

\* The engine runs and has nothing left to do: the order ring is empty and
\* no thread is inside submit_order, try_pop or a batch.
Quiescent ==
    /\ running_ /\ ~shutdown_requested_
    /\ control.pc = "idle"
    /\ head_ = tail_
    /\ \A t \in Submitters : submit_call[t].pc = "idle"
    /\ \A t \in Workers :
          /\ worker[t].pc \in {"loop", "collect"}
          /\ worker[t].batch = <<>>
          /\ InRingCall(t, "idle")

\* C27: exactly-once delivery with two matching threads on the order ring: no
\* order is passed to add_order more than once, and when the running engine
\* has nothing left to do, every order for which submit_order returned true
\* has been passed to add_order once.
C27_ExactlyOnceDelivery ==
    /\ \A h \in Handles : delivered[h] <= 1
    /\ Quiescent => \A h \in Handles : Accepted(h) => delivered[h] = 1

\* The engine as constructed: no call has been made on it.
NewlyConstructed == EngineInit

\* C28: start() on a newly constructed engine goes through: the TCP server
\* and the market data processor start, the threads are spawned, and the call
\* is about to store running_ = true and return true.
C28_StartFromInitialState ==
    [][(NewlyConstructed /\ control'.op = "start")
       => control'.pc = "start_store"]_vars

\* C31: no accepted order is lost: under a fair scheduler every order for
\* which submit_order returned true is eventually passed to add_order, also
\* when stop() is called while the order is in the ring.
C31_NoAcceptedOrderLost ==
    \A h \in Handles : Accepted(h) ~> (delivered[h] > 0)

(***************************************************************************)
(* Further properties of the book under concurrent callers.                *)
(***************************************************************************)
\* C32: no thread requests rw_mutex_ while it owns it: the one reading thread
\* never owns the mutex twice, and get_snapshot is never left waiting for a
\* writer that waits for it.
C32_NoLockRequestedWhileHeld ==
    /\ rw_mutex_.shared <= 1
    /\ read_call.pc # "blocked"

(***************************************************************************)
(* Properties of the trades.                                               *)
(***************************************************************************)
\* C33: the match price is the midpoint of the two matched levels: the price
\* of every trade is (best bid price + best ask price) / 2 at match time, and
\* lies between the price of the sell order and the price of the buy order.
C33_MatchPriceMidpoint ==
    \A i \in DOMAIN match_log :
        LET e == match_log[i]
            price == e.trade.trade_price
        IN  /\ 2 * price = HighestPrice(e.bids) + LowestPrice(e.asks)
            /\ e.sell_before.price <= price
            /\ price <= e.buy_before.price

\* A buy order has matched a sell order of a lower price, and the trade is
\* strictly between the two prices.
C33_Witness ==
    \E i \in DOMAIN match_log :
        LET e == match_log[i]
        IN  /\ e.sell_before.type = "LIMIT"
            /\ e.sell_before.price < e.trade.trade_price
            /\ e.trade.trade_price < e.buy_before.price

\* The trades of a log of match_orders, in match order.
TradesOf(log) == [k \in DOMAIN log |-> log[k].trade]

\* The last elements of the sequence s, at most n of them.
LastOf(s, n) == SubSeq(s, Len(s) - Min(n, Len(s)) + 1, Len(s))

\* C34: trade ids are 1, 2, 3, ... without gap or repetition, in match order:
\* the k-th trade of a call gets the id (trades recorded before the call) + k
\* and is appended after all earlier trades, so that the history holds the
\* latest trades with consecutive ids that end at total_trades_.
C34_TradeIdsSequential ==
    [][/\ \A k \in DOMAIN match_log' :
             match_log'[k].trade.trade_id = total_trades_ + k
       /\ recent_trades_' = LastOf(recent_trades_ \o TradesOf(match_log'),
                                   MAX_TRADES_HISTORY)
       /\ \A i \in DOMAIN recent_trades_' :
             recent_trades_'[i].trade_id
                = total_trades_' - Len(recent_trades_') + i]_vars

\* One call has recorded the trades 1 and 2.
C34_Witness ==
    /\ Len(match_log) = 2
    /\ total_trades_ = 2
    /\ recent_trades_[2] = match_log[2].trade

(***************************************************************************)
(* The book over a long run: a buyer and a seller trade one quantity at    *)
(* one price again and again, until recent_trades_ has been full and has   *)
(* evicted.  An Order object whose order has left the book is destroyed,   *)
(* and the next order is a new object in its place.                        *)
(***************************************************************************)
\* get_recent_trades(count): num_trades = min(count, recent_trades_.size()),
\* then from rbegin() while result.size() < num_trades.
get_recent_trades(b, count) ==
    LET held == Len(b.recent_trades)
        num_trades == Min(count, held)
    IN  [i \in 1..num_trades |-> b.recent_trades[held - i + 1]]

\* The buyer sends its orders under id 1, the seller under id 2: LIMIT orders
\* of quantity 1 at the lowest price.
TradingOrders ==
    {o \in NewOrders({1, 2}, {"LIMIT"}, {1}, {2}, {0}) :
        o.order_id = (IF o.side = "BUY" THEN 1 ELSE 2)}

\* add_order with an order of the buyer or of the seller, while the book has
\* recorded fewer than MAX_TRADES_HISTORY + MaxEvictions trades.
AddTradingOrder ==
    /\ Idle
    /\ total_trades_ < MAX_TRADES_HISTORY + MaxEvictions
    /\ FreeHandles # {}
    /\ LET h == CHOOSE f \in FreeHandles : \A g \in FreeHandles : f <= g
       IN  \E o \in TradingOrders :
             \E r \in add_order(Entering([orders EXCEPT ![h] = o]), h) :
                /\ Leaving(r.b)
                /\ last' = [op |-> "add_order", ret |-> r.ret, h |-> h,
                            order_id |-> o.order_id]
                /\ next_id' = IF r.ret /\ o.order_id >= next_id
                              THEN o.order_id + 1 ELSE next_id
    /\ UNCHANGED <<next_handle, clock, lock_vars>>
    /\ UNCHANGED <<ring_vars, engine_vars, registry_vars>>

NextHistory == AddTradingOrder \/ Return

SpecHistory == Init /\ [][NextHistory]_vars

\* The counts a caller passes to get_recent_trades: none, few, all the
\* history can hold, and more.
RecentCounts == {0, 1, 2, MAX_TRADES_HISTORY, MAX_TRADES_HISTORY + 1}

\* C35: whenever a call has returned, recent_trades_ holds at most
\* MAX_TRADES_HISTORY trades: all the trades recorded while they are no more
\* than that, the latest MAX_TRADES_HISTORY of them afterwards (the oldest is
\* evicted); and get_recent_trades(count) returns min(count, held) trades,
\* the most recent ones, newest first.
C35_BoundedTradeHistory ==
    LET held == Len(recent_trades_)
    IN  /\ held <= MAX_TRADES_HISTORY
        /\ held = Min(total_trades_, MAX_TRADES_HISTORY)
        /\ \A i \in DOMAIN recent_trades_ :
              recent_trades_[i].trade_id = total_trades_ - held + i
        /\ \A count \in RecentCounts :
              LET result == get_recent_trades(Entering(orders), count)
              IN  /\ Len(result) = Min(count, held)
                  /\ \A i \in DOMAIN result :
                        result[i].trade_id = total_trades_ - i + 1

\* The history was full and a call has recorded a trade more for the second
\* time: the trades 1 and 2 are gone.
C35_Witness ==
    /\ match_log # <<>>
    /\ total_trades_ = MAX_TRADES_HISTORY + 2
    /\ Len(recent_trades_) = MAX_TRADES_HISTORY
    /\ recent_trades_[1].trade_id = 3

(***************************************************************************)
(* Further properties of the calls of the book.                            *)
(***************************************************************************)
\* C36: cancel_order and modify_order with an order id that is not in the
\* book return false and leave the book unchanged: the ladders, the index,
\* the trades, the counters and every order object.
C36_UnknownIdRejected ==
    [][((Calls("cancel_order") \/ Calls("modify_order"))
        /\ last'.order_id \notin DOMAIN orders_by_id_)
       => (~last'.ret /\ Book' = Book /\ orders' = orders)]_vars

\* modify_order has returned false for the id of an order that has left a
\* book which holds other orders and has recorded trades.
C36_Witness ==
    /\ last.op = "modify_order" /\ ~last.ret
    /\ last.order_id < next_id
    /\ DOMAIN orders_by_id_ # {}
    /\ total_trades_ > 0

(***************************************************************************)
(* Two symbols: the calls the engine routes through the OrderBookManager   *)
(* to the book of BookSymbol (the members bids_, asks_, ...) and to the    *)
(* book of OtherSymbol (other_book).  A call is the body of the loop of    *)
(* process_order_batch with one popped order, in a matching thread that    *)
(* start() has spawned, or OrderMatchingEngine::cancel_order or            *)
(* modify_order.                                                           *)
(***************************************************************************)
\* Mutant of RoutedSymbol: every order is passed to the book of BookSymbol.
RoutedSymbol_first(o) == BookSymbol

\* order_book_manager_->get_or_create_order_book(order->symbol).
RoutedSymbol(o) == o.symbol

\* The book of `symbol` as a call finds it, over the heap `heap`.
EnteringOf(symbol, heap) ==
    IF symbol = BookSymbol
    THEN Entering(heap)
    ELSE [symbol |-> symbol,
          bids |-> other_book.bids, asks |-> other_book.asks,
          orders_by_id |-> other_book.orders_by_id,
          recent_trades |-> other_book.recent_trades,
          total_orders |-> other_book.total_orders,
          total_trades |-> other_book.total_trades,
          total_volume |-> other_book.total_volume,
          orders |-> heap, log |-> <<>>]

\* The book of `symbol` as a call leaves it; the other book is not written.
LeavingOf(symbol, b) ==
    IF symbol = BookSymbol
    THEN Leaving(b) /\ UNCHANGED other_book
    ELSE /\ other_book' = [bids |-> b.bids, asks |-> b.asks,
                           orders_by_id |-> b.orders_by_id,
                           recent_trades |-> b.recent_trades,
                           total_orders |-> b.total_orders,
                           total_trades |-> b.total_trades,
                           total_volume |-> b.total_volume]
         /\ orders' = b.orders
         /\ match_log' = b.log
         /\ UNCHANGED <<bids_, asks_, orders_by_id_, recent_trades_,
                        total_orders_, total_trades_, total_volume_>>

\* The orders popped from the ring: LIMIT orders of quantity 1 for either
\* symbol.
SymbolOrders ==
    {[o EXCEPT !.symbol = symbol] :
        o \in NewOrders(KnownIds, {"LIMIT"}, {1}, Prices, {0}),
        symbol \in Symbols}

\* get_or_create_order_book(symbol): the registry it leaves.
get_or_create_order_book(books, made, symbol) ==
    IF books[symbol] # NoBook
    THEN [order_books |-> books, books_made |-> made]
    ELSE [order_books |-> [books EXCEPT ![symbol] = made + 1],
          books_made |-> made + 1]

\* get_order_book(symbol): the book found, or nullptr.
get_order_book(books, symbol) == books[symbol]

\* The handle of the order with id `order_id` in the book of `symbol`.
HandleIn(symbol, order_id) ==
    LET index == EnteringOf(symbol, orders).orders_by_id
    IN  IF order_id \in DOMAIN index THEN index[order_id] ELSE 0

\* The body of the loop of process_order_batch for one popped order:
\* get_or_create_order_book(order->symbol), then add_order(order) on the book
\* returned, then the increment of orders_processed.
ProcessOrder ==
    /\ Idle
    /\ \E t \in Workers : worker[t].pc = "loop"
    /\ next_handle <= MaxOrders
    /\ \E o \in SymbolOrders :
          LET symbol == RoutedSymbol(o)
              registry == get_or_create_order_book(order_books_, books_made, symbol)
              heap == [orders EXCEPT ![next_handle] = o]
          IN  /\ order_books_' = registry.order_books
              /\ books_made' = registry.books_made
              /\ call_symbol' = symbol
              /\ \E r \in add_order(EnteringOf(symbol, heap), next_handle) :
                    /\ LeavingOf(symbol, r.b)
                    /\ last' = [op |-> "add_order", ret |-> r.ret,
                                h |-> next_handle, order_id |-> o.order_id]
                    /\ next_handle' = IF r.ret THEN next_handle + 1
                                      ELSE next_handle
                    /\ next_id' = IF r.ret /\ o.order_id = next_id
                                  THEN next_id + 1 ELSE next_id
                    /\ orders_processed' =
                          IF r.ret THEN orders_processed_add(orders_processed)
                          ELSE orders_processed
    /\ UNCHANGED <<running_, shutdown_requested_, tcp_running, mdp_running,
                   control, submit_call, worker, aux, total_latency_ns,
                   connected_, delivered, trades_executed>>
    /\ UNCHANGED <<clock, lock_vars, ring_vars, registry_mutex, registry_call>>

\* OrderMatchingEngine::cancel_order(order_id, symbol): false when the engine
\* does not run or the manager has no book of the symbol, else cancel_order
\* of that book.
EngineCancelOrder ==
    /\ Idle
    /\ \E order_id \in KnownIds, symbol \in Symbols :
          /\ call_symbol' = symbol
          /\ IF ~running_ \/ get_order_book(order_books_, symbol) = NoBook
             THEN /\ last' = [op |-> "cancel_order", ret |-> FALSE, h |-> 0,
                              order_id |-> order_id]
                  /\ UNCHANGED <<orders, bids_, asks_, orders_by_id_,
                                 recent_trades_, total_orders_, total_trades_,
                                 total_volume_, match_log, other_book>>
             ELSE LET r == cancel_order(EnteringOf(symbol, orders), order_id)
                  IN  /\ LeavingOf(symbol, r.b)
                      /\ last' = [op |-> "cancel_order", ret |-> r.ret,
                                  h |-> HandleIn(symbol, order_id),
                                  order_id |-> order_id]
    /\ UNCHANGED <<next_handle, next_id, clock, lock_vars, ring_vars,
                   engine_vars, order_books_, registry_mutex, registry_call,
                   books_made>>

\* OrderMatchingEngine::modify_order(order_id, symbol, new_quantity,
\* new_price), in the same way.
EngineModifyOrder ==
    /\ Idle
    /\ \E order_id \in KnownIds, symbol \in Symbols, new_price \in Prices :
          /\ call_symbol' = symbol
          /\ IF ~running_ \/ get_order_book(order_books_, symbol) = NoBook
             THEN /\ last' = [op |-> "modify_order", ret |-> FALSE, h |-> 0,
                              order_id |-> order_id]
                  /\ UNCHANGED <<orders, bids_, asks_, orders_by_id_,
                                 recent_trades_, total_orders_, total_trades_,
                                 total_volume_, match_log, other_book>>
             ELSE \E r \in modify_order(EnteringOf(symbol, orders), order_id,
                                        1, new_price, clock) :
                      /\ LeavingOf(symbol, r.b)
                      /\ last' = [op |-> "modify_order", ret |-> r.ret,
                                  h |-> HandleIn(symbol, order_id),
                                  order_id |-> order_id]
    /\ UNCHANGED <<next_handle, next_id, clock, lock_vars, ring_vars,
                   engine_vars, order_books_, registry_mutex, registry_call,
                   books_made>>

\* The order object h rests in the book of `symbol`.
InBookOf(symbol, h) ==
    LET b == EnteringOf(symbol, orders)
    IN  \/ \E id \in DOMAIN b.orders_by_id : b.orders_by_id[id] = h
        \/ \E p \in DOMAIN b.bids : h \in Range(b.bids[p])
        \/ \E p \in DOMAIN b.asks : h \in Range(b.asks[p])

\* The caller takes the result of its call, and the orders that have left
\* their book with it.
ReturnRouted ==
    /\ ~Idle
    /\ last' = NoCall
    /\ match_log' = <<>>
    /\ call_symbol' = NoSymbol
    /\ orders' = [h \in Handles |->
                    IF \E symbol \in Symbols : InBookOf(symbol, h)
                    THEN orders[h] ELSE NoOrder]
    /\ UNCHANGED <<next_handle, next_id, bids_, asks_, orders_by_id_,
                   recent_trades_, total_orders_, total_trades_, total_volume_,
                   clock, lock_vars, ring_vars, engine_vars, order_books_,
                   registry_mutex, registry_call, books_made, other_book>>

\* The engine is started (its data source connected: ConnectDataSource) and
\* takes the calls.
NextSymbols ==
    \/ ConnectDataSource \/ Start \/ StartStore
    \/ ProcessOrder \/ EngineCancelOrder \/ EngineModifyOrder \/ ReturnRouted

SpecSymbols == InitEngine /\ [][NextSymbols]_vars

\* The members of the book of `symbol`.
MembersOf(symbol) == BookOf(EnteringOf(symbol, orders))

\* C37: symbol independence.  A popped order is passed to the book registered
\* under its symbol (and is admitted there exactly if that book does not hold
\* its id); a call of add_order, cancel_order or modify_order for one symbol
\* leaves the ladders, the index, the trades, the counters and the orders of
\* the book of every other symbol unchanged; and a book holds orders of its
\* own symbol only.
C37_SymbolIndependence ==
    [][(Idle /\ last'.op # "none")
       => /\ \A symbol \in Symbols \ {call_symbol'} :
                /\ MembersOf(symbol)' = MembersOf(symbol)
                /\ \A h \in Handles :
                      InBookOf(symbol, h) => orders'[h] = orders[h]
          /\ last'.op = "add_order"
                => LET o == orders'[last'.h]
                   IN  /\ call_symbol' = o.symbol
                       /\ order_books_'[o.symbol] # NoBook
                       /\ last'.ret = (o.order_id \notin
                                         DOMAIN MembersOf(o.symbol).orders_by_id)
                       /\ last'.ret
                             => \/ match_log' # <<>>
                                \/ \E symbol \in Symbols, h \in Handles :
                                      /\ symbol = o.symbol /\ h = last'.h
                                      /\ InBookOf(symbol, h)'
          /\ \A symbol \in Symbols, h \in Handles :
                InBookOf(symbol, h)' => orders'[h].symbol = symbol]_vars

\* Both books hold an order of one id, and cancel_order for OtherSymbol has
\* removed the one of its book.
C37_Witness ==
    /\ running_
    /\ last.op = "cancel_order" /\ last.ret
    /\ call_symbol = OtherSymbol
    /\ last.order_id \in DOMAIN orders_by_id_
    /\ orders[last.h].symbol = OtherSymbol
    /\ other_book.orders_by_id # EmptyMap

(***************************************************************************)
(* Counters.                                                               *)
(***************************************************************************)
\* size_t OrderBook::get_order_count() const: return total_orders_;
get_order_count(b) == b.total_orders

\* The orders that rest in the levels of a ladder.
RECURSIVE RestingIn(_)
RestingIn(ladder) ==
    IF DOMAIN ladder = {}
    THEN 0
    ELSE LET p == CHOOSE q \in DOMAIN ladder : TRUE
         IN  Len(ladder[p]) + RestingIn(MapErase(ladder, p))

\* C38: whenever add_order, cancel_order or modify_order has returned,
\* get_order_count is the number of orders in orders_by_id_, which is the
\* number of orders that rest in the levels.
C38_OrderCountIsIndexSize ==
    /\ get_order_count(Entering(orders)) = Cardinality(DOMAIN orders_by_id_)
    /\ get_order_count(Entering(orders)) = RestingIn(bids_) + RestingIn(asks_)

\* modify_order has made an order cross: fills have removed orders, and
\* orders still rest.
C38_Witness ==
    /\ last.op = "modify_order" /\ last.ret
    /\ \E i \in DOMAIN match_log :
          is_filled(match_log[i].buy_after) /\ is_filled(match_log[i].sell_after)
    /\ total_orders_ > 0

\* OrderMatchingEngine::get_total_trade_count: the sum of get_trade_count
\* over the books of the symbols the manager holds.
RECURSIVE TradeCountOver(_)
TradeCountOver(symbols) ==
    IF symbols = {}
    THEN 0
    ELSE LET symbol == CHOOSE s \in symbols : TRUE
         IN  (IF get_order_book(order_books_, symbol) # NoBook
              THEN MembersOf(symbol).total_trades ELSE 0)
             + TradeCountOver(symbols \ {symbol})

get_total_trade_count == TradeCountOver(Symbols)

\* C39: the counter trades_executed of the engine is the number of trades all
\* books have recorded, whenever no matching thread is inside add_order.
C39_TradesExecutedCountsTrades ==
    trades_executed = get_total_trade_count

(***************************************************************************)
(* Termination of match_orders.                                            *)
(***************************************************************************)
\* The orders a call of `op` puts into the book before it matches.
Admits(op, ret) == IF op = "add_order" /\ ret THEN 1 ELSE 0

\* C40: match_orders terminates: every iteration of its loop removes at least
\* one order from the book (the buy order or the sell order is filled by it),
\* so a call makes no more iterations than the book holds orders, and when
\* add_order or modify_order returns the loop has stopped at its own test.
C40_MatchOrdersTerminates ==
    [][(Idle /\ last'.op # "none")
       => /\ \A i \in DOMAIN match_log' :
                \/ is_filled(match_log'[i].buy_after)
                \/ is_filled(match_log'[i].sell_after)
          /\ Len(match_log') <= total_orders_ + Admits(last'.op, last'.ret)
          /\ total_orders_' <= total_orders_ + Admits(last'.op, last'.ret)
                                  - Len(match_log')
          /\ ~CanMatch(Entering(orders))']_vars

\* add_order has matched twice, once against an order with nothing remaining:
\* the iteration traded nothing and removed that order.
C40_Witness ==
    /\ last.op = "add_order" /\ last.ret
    /\ Len(match_log) = 2
    /\ \E i \in DOMAIN match_log : match_log[i].trade.trade_quantity = 0
    /\ \E i \in DOMAIN match_log : match_log[i].trade.trade_quantity > 0

====
